---- MODULE Spec2Model ----
(***************************************************************************)
(* Model of dwm_thumbnail.cc: the thumbnail cache (GetOrCaptureWindow-     *)
(* Thumbnail, UpdateThumbnail, UpdateThumbnailAsyncWorker) and the window  *)
(* change-notification engine (WinEventProcCB, the fallback poller, the    *)
(* registration functions).                                                *)
(***************************************************************************)
EXTENDS Integers, Sequences, FiniteSets, TLC

VARIABLES
    now,            \* GetTickCount64(): milliseconds since boot
    win,            \* the OS windows: handle -> [life, visible, iconic, normal]
    g_thumbCache,   \* std::unordered_map<HWND, ThumbCacheEntry>
    g_iconCache,    \* std::unordered_map<HWND, std::string>
    topWindows,     \* what the OS reports of the top-level windows, in the order EnumWindows visits them
    listed,         \* the WindowInfo records of the last enumeration
    vdmService,     \* whether COM hands out a virtual-desktop manager
    iconCalls,      \* per thread: the handle whose icon it is resolving (0: none)
    thumbCalls,     \* per thread: the GetOrCaptureWindowThumbnail call between lookup and write
    tsfns,          \* the thread-safe function handles: per slot, released, in use
    op,             \* the last query operation that ran and what it did
    fg,             \* GetForegroundWindow()
    pending,        \* WinEvents the OS has queued for out-of-context delivery
    g_lastHookEventTick,
    g_tsfn,         \* the six ThreadSafeFunction slots: slot -> registered
    g_hooks,        \* the ten g_hook* handles: installed (all) or null (all)
    g_eventPollerRunning,
    g_usingFallbackEvents,
    poller,         \* the poller thread: position and locals
    emitted,        \* the events the last step delivered, in delivery order
    uni,            \* per handle: what the unified channel has been told so far
    g_fn,           \* slot -> the function its ThreadSafeFunction wraps (0: empty)
    hostQueue,      \* calls handed to a ThreadSafeFunction, not yet run by the host
    mainPc,         \* the host's main thread: "idle", or "join" inside thread::join
    threads,        \* poller threads started and not finished
    hookSets        \* sets of WinEvent hooks installed and not unhooked


\* ------------------------------------------------------------------ bounds
MaxTime == 1200
CacheTimeStep == 400

Handles == {1, 2}
\* The handles the thumbnail queries are run on.
QueryHandles == {1}
NullHwnd == 0

\* ------------------------------------------------------- program constants
THUMB_TTL_MS == 800
PrefixLen == 22
GoodThreshold == 8000
DefaultWidth == 200
DefaultHeight == 150

\* --------------------------------------------------------------- payloads
\* An encoded image is its length in bytes and the picture it holds.
EmptyPng == [len |-> PrefixLen, img |-> "empty"]
TinyPng == [len |-> PrefixLen + GoodThreshold, img |-> "tiny"]
GoodPng == [len |-> PrefixLen + GoodThreshold + 1, img |-> "a"]
IconTile == [len |-> PrefixLen + 900, img |-> "icon"]

CaptureOutcomes == {TinyPng, GoodPng}
PlaceholderOutcomes == {EmptyPng, IconTile}
Sizes == {<<DefaultWidth, DefaultHeight>>, <<100, 75>>}

isGoodPng(data) == data.len > PrefixLen + GoodThreshold

\* ---------------------------------------------------------------- windows
MinimizedRect == 0
NoRect == -1
NormalRects == {1, 2}

\* small: the rectangle GetWindowRect reports while the window is minimized (its
\* iconic rectangle, 160x28 at 96 dpi) is under 50 in width or in height.
NoWindow == [life |-> "none", visible |-> FALSE, iconic |-> FALSE, normal |-> 1, small |-> FALSE]

IsWindow(w) == w.life = "alive"
IsIconic(w) == IsWindow(w) /\ w.iconic
IsWindowVisible(w) == IsWindow(w) /\ w.visible
\* GetWindowRect fails (NoRect) on a handle that is no window; a minimized
\* window reports its off-screen iconic rectangle.
GetWindowRectOk(w) == IsWindow(w)
GetWindowRect(w) ==
    IF ~IsWindow(w) THEN NoRect ELSE IF w.iconic THEN MinimizedRect ELSE w.normal

Destroyed(w) == [w EXCEPT !.life = "dead", !.visible = FALSE, !.iconic = FALSE, !.small = FALSE]

\* What a window can have become by the time a capture has run.
DuringCall(w) ==
    IF IsWindow(w)
    THEN {w, [w EXCEPT !.iconic = ~w.iconic], Destroyed(w)}
    ELSE {w}

\* ------------------------------------------------------------------ capture
\* CaptureWindowScreenshot: alive is IsWindow on entry, ia and ib the two
\* IsIconic samples (before the DWM attempt, before the WGC attempt), dwm, wgc
\* and gdi the payloads the three capture paths would encode, geomOk whether the
\* rectangle, device contexts and bitmaps of the GDI path could be obtained.
CaptureWindowScreenshot(alive, ia, ib, wgcOn, dwm, wgc, geomOk, gdi) ==
    IF ~alive THEN EmptyPng
    ELSE IF ia /\ isGoodPng(dwm) THEN dwm
    ELSE IF wgcOn /\ ~ib /\ wgc.len > PrefixLen THEN wgc
    ELSE IF ~geomOk THEN EmptyPng
    ELSE gdi

\* The capture strategies in the order CaptureWindowScreenshot tries them.
Strategies == <<"dwmThumbnail", "graphicsCapture", "printFull", "printClient", "printDefault", "desktopCopy">>

\* "result = PrintWindow(...); if (!result) ...": the strategy whose drawing is
\* in the bitmap that is encoded; each PrintWindow call is made only if the one
\* before returned FALSE, and the desktop copy only if all three did.
PrintWindowChain(pwFull, pwClient, pwDefault) ==
    IF pwFull THEN "printFull"
    ELSE IF pwClient THEN "printClient"
    ELSE IF pwDefault THEN "printDefault"
    ELSE "desktopCopy"

\* The strategy whose payload CaptureWindowScreenshot returns ("none": the empty
\* payload of a failure); the parameters are those of CaptureWindowScreenshot,
\* with the BOOL results of the three PrintWindow calls.
CaptureStrategy(alive, ia, ib, wgcOn, dwm, wgc, geomOk, pwFull, pwClient, pwDefault) ==
    IF ~alive THEN "none"
    ELSE IF ia /\ isGoodPng(dwm) THEN "dwmThumbnail"
    ELSE IF wgcOn /\ ~ib /\ wgc.len > PrefixLen THEN "graphicsCapture"
    ELSE IF ~geomOk THEN "none"
    ELSE PrintWindowChain(pwFull, pwClient, pwDefault)

\* Every payload one call of CaptureWindowScreenshot can return for a window that
\* is w0 when the call starts: the window may be minimized or restored between
\* the two IsIconic samples, each capture path may encode any outcome, and the
\* build may or may not have ENABLE_WGC.
CaptureResults(w0) ==
    { CaptureWindowScreenshot(IsWindow(w0), IsIconic(w0), ib, wgcOn,
                              dwm, wgc, geomOk, gdi) :
        ib \in (IF IsWindow(w0) THEN BOOLEAN ELSE {FALSE}), wgcOn \in BOOLEAN,
        dwm \in CaptureOutcomes, wgc \in CaptureOutcomes,
        gdi \in CaptureOutcomes, geomOk \in BOOLEAN }

\* ------------------------------------------------------------------ cache
\* a - b on ULONGLONG: a difference below zero wraps to just under 2^64, which
\* is beyond every threshold it is compared with (shown here at integer width).
U64Sub(a, b) == IF a >= b THEN a - b ELSE 2147483647 - (b - a) + 1

ThumbCacheEntry(base64, rect, ts, w, h) ==
    [base64 |-> base64, rect |-> rect, ts |-> ts, w |-> w, h |-> h]

CachePut(cache, hwnd, e) ==
    [x \in DOMAIN cache \cup {hwnd} |-> IF x = hwnd THEN e ELSE cache[x]]

\* Variants of the validity test: one that takes an entry of any age below the
\* TTL for stale and one that does not compare the rectangle.
EntryValid_Stale(e, rect, tick, maxWidth, maxHeight) ==
    /\ e.w = maxWidth /\ e.h = maxHeight
    /\ e.rect = rect
    /\ U64Sub(tick, e.ts) >= THUMB_TTL_MS

EntryValid_NoRect(e, rect, tick, maxWidth, maxHeight) ==
    /\ e.w = maxWidth /\ e.h = maxHeight
    /\ U64Sub(tick, e.ts) < THUMB_TTL_MS

\* The validity test of the first lookup of GetOrCaptureWindowThumbnail.
EntryValid(e, rect, tick, maxWidth, maxHeight) ==
    /\ e.w = maxWidth /\ e.h = maxHeight
    /\ e.rect = rect
    /\ U64Sub(tick, e.ts) < THUMB_TTL_MS

\* A test for a good entry that never finds one.
HasGood_Never(cache, hwnd) == FALSE

\* "it != g_thumbCache.end() && isGoodPng(it->second.base64)"
HasGood(cache, hwnd) == hwnd \in DOMAIN cache /\ isGoodPng(cache[hwnd].base64)

\* The part of GetOrCaptureWindowThumbnail after "fresh = CaptureWindowScreenshot":
\* the guard for a minimized window whose capture is not good, and otherwise
\* the write "g_thumbCache[hwnd] = ThumbCacheEntry{ fresh, rect, now, ... }"
\* with the rectangle and the tick `tick` sampled on entry of the call.
AfterCapture(cache, hwnd, maxWidth, maxHeight, rect, tick, fresh, iconic2, placeholder) ==
    IF iconic2 /\ ~isGoodPng(fresh)
    THEN IF HasGood(cache, hwnd)
         THEN [ret |-> cache[hwnd].base64, how |-> "guard", cache |-> cache, captures |-> 1]
         ELSE [ret |-> IF placeholder.len > PrefixLen THEN placeholder ELSE fresh,
               how |-> "placeholder", cache |-> cache, captures |-> 1]
    ELSE [ret |-> fresh, how |-> "write",
          cache |-> CachePut(cache, hwnd,
                             ThumbCacheEntry(fresh, rect, tick, maxWidth, maxHeight)),
          captures |-> 1]

\* GetOrCaptureWindowThumbnail(hwnd, maxWidth, maxHeight) on cache `cache`.
\* rectOk/rect: GetWindowRect on entry; tick: GetTickCount64 on entry;
\* iconic1: IsIconic before the capture; fresh: what the capture returns;
\* iconic2: IsIconic after the capture; placeholder: what
\* CreateIconPlaceholderThumbnail returns.
\* Result: the payload returned, the path taken, the cache afterwards and the
\* number of captures invoked.
GetOrCaptureWindowThumbnail(cache, hwnd, maxWidth, maxHeight, rectOk, rect, tick, iconic1, fresh, iconic2, placeholder) ==
    IF ~rectOk
    THEN [ret |-> EmptyPng, how |-> "norect", cache |-> cache, captures |-> 0]
    ELSE IF hwnd \in DOMAIN cache
            /\ EntryValid(cache[hwnd], rect, tick, maxWidth, maxHeight)
    THEN [ret |-> cache[hwnd].base64, how |-> "hit", cache |-> cache, captures |-> 0]
    ELSE IF iconic1 /\ HasGood(cache, hwnd)
    THEN [ret |-> cache[hwnd].base64, how |-> "lastgood", cache |-> cache, captures |-> 0]
    ELSE AfterCapture(cache, hwnd, maxWidth, maxHeight, rect, tick, fresh, iconic2, placeholder)

\* The cache write of the synchronous UpdateThumbnail.
UpdateThumbnailWrite(cache, hwnd, newThumbnail, rectOk, rect, iconic, tick) ==
    IF rectOk /\ ~(iconic /\ ~isGoodPng(newThumbnail))
    THEN CachePut(cache, hwnd,
                  ThumbCacheEntry(newThumbnail, rect, tick, DefaultWidth, DefaultHeight))
    ELSE cache

\* The cache write of UpdateThumbnailAsyncWorker::Execute.
UpdateThumbnailAsyncWrite(cache, hwnd, thumbnail, rectOk, rect, iconic, tick) ==
    IF rectOk
    THEN CachePut(cache, hwnd,
                  ThumbCacheEntry(thumbnail, rect, tick, DefaultWidth, DefaultHeight))
    ELSE cache

\* ------------------------------------------------------ notification engine
EvMaxTime == 3000
EvTimeStep == 1000
MaxPending == 1
\* The handles of the windows the notification engine watches.
EvHandles == {1}

SuppressMs == 1000
SleepMs == 250

Kinds == {"created", "closed", "focused", "minimized", "restored"}
Slots == Kinds \cup {"change"}
\* The slots the application registers a callback for.
RegSlots == {"created", "closed", "change"}
\* The WinEvents the hooks are installed for, and the object ids they carry.
WinEvents == {"CREATE", "DESTROY", "FOREGROUND", "SHOW", "HIDE", "CLOAKED", "UNCLOAKED",
              "MINIMIZESTART", "MINIMIZEEND", "STATECHANGE"}
ObjIds == {"OBJID_WINDOW", "OBJID_CLIENT", "OBJID_CARET"}

WinOf(ws, hwnd) == IF hwnd \in DOMAIN ws THEN ws[hwnd] ELSE NoWindow

\* GetAncestor(hwnd, GA_ROOT): every modelled window is its own root; NULL for
\* a handle that is no window.
GetAncestor(ws, hwnd) == IF IsWindow(WinOf(ws, hwnd)) THEN hwnd ELSE NullHwnd

IsTopLevelWindow(ws, hwnd) == hwnd # NullHwnd /\ GetAncestor(ws, hwnd) = hwnd

\* "HWND top = GetAncestor(hwnd, GA_ROOT); if (top) hwnd = top;"
RootOr(ws, hwnd) == IF GetAncestor(ws, hwnd) # NullHwnd THEN GetAncestor(ws, hwnd) ELSE hwnd

\* A title and an executable path are named by the handle they were read from;
\* 0 is the empty string.
MakePayload(ws, hwnd) ==
    [hwnd |-> hwnd,
     title |-> IF IsWindow(WinOf(ws, hwnd)) THEN hwnd ELSE 0,
     exePath |-> IF IsWindow(WinOf(ws, hwnd)) THEN hwnd ELSE 0,
     isVisible |-> IsWindowVisible(WinOf(ws, hwnd))]

\* "WindowEventPayload payload{}; payload.hwnd = h; payload.isVisible = false;"
ClosedPayload(hwnd) == [hwnd |-> hwnd, title |-> 0, exePath |-> 0, isVisible |-> FALSE]

\* A variant of the delivery block that reaches the unified slot only from
\* inside the specific one.
Emit_Nested(tsfn, type, data) ==
    IF tsfn[type]
    THEN <<[chan |-> type, type |-> type, data |-> data]>>
         \o (IF tsfn["change"] THEN <<[chan |-> "change", type |-> type, data |-> data]>>
             ELSE <<>>)
    ELSE <<>>

\* The delivery block every emission site repeats: the specific slot first, then
\* the unified slot, each when it is set; the object built for the callback
\* carries the payload and the kind.
Emit(tsfn, type, data) ==
    (IF tsfn[type] THEN <<[chan |-> type, type |-> type, data |-> data]>> ELSE <<>>)
    \o (IF tsfn["change"] THEN <<[chan |-> "change", type |-> type, data |-> data]>> ELSE <<>>)

\* Creation and destruction handlers that also take the show signal for a
\* creation.
CreateOrDestroy_AlsoShow(tsfn, ws, event, hwnd) ==
    IF event \in {"CREATE", "SHOW"} THEN Emit(tsfn, "created", MakePayload(ws, hwnd))
    ELSE IF event = "DESTROY" THEN Emit(tsfn, "closed", ClosedPayload(hwnd))
    ELSE <<>>

\* The last handlers of WinEventProcCB: "if (event == EVENT_OBJECT_CREATE) ..
\* else if (event == EVENT_OBJECT_DESTROY) ..".
CreateOrDestroy(tsfn, ws, event, hwnd) ==
    IF event = "CREATE" THEN Emit(tsfn, "created", MakePayload(ws, hwnd))
    ELSE IF event = "DESTROY" THEN Emit(tsfn, "closed", ClosedPayload(hwnd))
    ELSE <<>>

\* What one invocation of WinEventProcCB delivers (its store to
\* g_lastHookEventTick is in the action HookCallback).  The handlers of the
\* state change and of the show signal do not return: what they deliver is
\* followed by what the handlers after them deliver for the same signal, with
\* hwnd already replaced by its root.
WinEventProcCB(tsfn, ws, fgw, event, hwnd, idObject) ==
    LET alive(h) == IsWindow(WinOf(ws, h))
        window(h) == alive(h) /\ IsTopLevelWindow(ws, h)
        top == RootOr(ws, hwnd)
        hint == IF ~window(hwnd) /\ fgw # NullHwnd THEN GetAncestor(ws, fgw) ELSE hwnd
        stateChange ==
            IF event # "STATECHANGE" THEN <<>>
            ELSE IF IsIconic(WinOf(ws, top)) THEN Emit(tsfn, "minimized", MakePayload(ws, top))
            ELSE IF IsWindowVisible(WinOf(ws, top)) THEN Emit(tsfn, "restored", MakePayload(ws, top))
            ELSE <<>>
        afterState == IF event = "STATECHANGE" THEN top ELSE hwnd
        show == IF event = "SHOW" THEN Emit(tsfn, "restored", MakePayload(ws, top)) ELSE <<>>
        afterShow == IF event = "SHOW" THEN top ELSE afterState
    IN  IF event = "FOREGROUND"
        THEN IF ~alive(hwnd) THEN <<>> ELSE Emit(tsfn, "focused", MakePayload(ws, top))
        ELSE IF event = "CLOAKED"
        THEN IF idObject # "OBJID_WINDOW" \/ ~window(top) THEN <<>>
             ELSE Emit(tsfn, "minimized", MakePayload(ws, top))
        ELSE IF event = "STATECHANGE" /\ (idObject \notin {"OBJID_WINDOW", "OBJID_CLIENT"} \/ ~alive(hwnd) \/ ~window(top))
        THEN <<>>
        ELSE stateChange \o
             (IF event = "UNCLOAKED"
              THEN IF idObject # "OBJID_WINDOW" \/ ~window(top) THEN <<>>
                   ELSE Emit(tsfn, "restored", MakePayload(ws, top))
              ELSE IF event = "MINIMIZESTART"
              THEN IF window(hint) THEN Emit(tsfn, "minimized", MakePayload(ws, hint)) ELSE <<>>
              ELSE IF event = "MINIMIZEEND"
              THEN IF window(hint) THEN Emit(tsfn, "restored", MakePayload(ws, hint)) ELSE <<>>
              ELSE IF idObject \notin {"OBJID_WINDOW", "OBJID_CLIENT"} THEN <<>>
              ELSE IF ~window(afterState) THEN <<>>
              ELSE IF event = "HIDE" THEN Emit(tsfn, "minimized", MakePayload(ws, top))
              ELSE show \o CreateOrDestroy(tsfn, ws, event, afterShow))

\* "RECT rc{}; if (!GetWindowRect(hwnd, &rc)) return TRUE; if ((rc.right -
\* rc.left) < 50 || (rc.bottom - rc.top) < 50) return TRUE;": the rectangle is
\* the current one, for a minimized window its iconic rectangle; every modelled
\* window is at least 50x50 while it is not minimized.
RectUnder50(w) == w.iconic /\ w.small

\* EnumTopLevelWindows: every modelled window is unowned and no tool window, so
\* the filter is IsWindow, top-level, visible and the size of the rectangle.
EnumTopLevelWindows(ws) ==
    {h \in DOMAIN ws : /\ IsWindow(ws[h]) /\ IsTopLevelWindow(ws, h)
                       /\ IsWindowVisible(ws[h])
                       /\ ~RectUnder50(ws[h])}

\* The elements of a set of handles, in ascending order.
RECURSIVE SeqOf(_)
SeqOf(S) ==
    IF S = {} THEN <<>>
    ELSE LET m == CHOOSE x \in S : \A y \in S : x <= y
         IN  <<m>> \o SeqOf(S \ {m})

\* A variant of the suppression test that never lets go once a hook has fired.
HooksActive_Sticky(nowTick, lastHook) == lastHook # 0

\* "bool hooksActive = (lastHook != 0 && (nowTick - lastHook) < 1000);"
HooksActive(nowTick, lastHook) == lastHook # 0 /\ U64Sub(nowTick, lastHook) < SuppressMs

\* The foreground block of a poller tick.
PollFocused(tsfn, ws, hooksActive, fgTop, lastFg) ==
    IF ~hooksActive /\ fgTop # NullHwnd /\ fgTop # lastFg /\ (tsfn["focused"] \/ tsfn["change"])
    THEN Emit(tsfn, "focused", MakePayload(ws, fgTop))
    ELSE <<>>

\* The "Created" block: one event per handle of current that is not in known.
RECURSIVE PollCreatedLoop(_, _, _)
PollCreatedLoop(tsfn, ws, hs) ==
    IF hs = <<>> THEN <<>>
    ELSE Emit(tsfn, "created", MakePayload(ws, Head(hs))) \o PollCreatedLoop(tsfn, ws, Tail(hs))

PollCreated(tsfn, ws, hooksActive, known, current) ==
    IF ~hooksActive /\ (tsfn["created"] \/ tsfn["change"])
    THEN PollCreatedLoop(tsfn, ws, SeqOf(current \ known))
    ELSE <<>>

\* The "Closed" block: one event per handle of known that is not in current.
RECURSIVE PollClosedLoop(_, _)
PollClosedLoop(tsfn, hs) ==
    IF hs = <<>> THEN <<>>
    ELSE Emit(tsfn, "closed", ClosedPayload(Head(hs))) \o PollClosedLoop(tsfn, Tail(hs))

\* A closed block that reports every known handle.
PollClosed_AllKnown(tsfn, hooksActive, known, current) ==
    IF ~hooksActive /\ (tsfn["closed"] \/ tsfn["change"])
    THEN PollClosedLoop(tsfn, SeqOf(known))
    ELSE <<>>

PollClosed(tsfn, hooksActive, known, current) ==
    IF ~hooksActive /\ (tsfn["closed"] \/ tsfn["change"])
    THEN PollClosedLoop(tsfn, SeqOf(known \ current))
    ELSE <<>>

\* A variant of the bookkeeping that never erases a handle.
KnownAfter_NoPurge(known, current) == known \cup current

\* known after the two blocks: both branches of each insert every handle of
\* current and erase every handle that is not in it.
KnownAfter(known, current) == (known \cup current) \ ((known \cup current) \ current)

\* The minimized/restored loop over current.
RECURSIVE PollMinimizedLoop(_, _, _, _, _)
PollMinimizedLoop(tsfn, ws, hooksActive, minimized, hs) ==
    IF hs = <<>> THEN <<>>
    ELSE LET h == Head(hs)
             nowMin == IsIconic(ws[h])
             rest == PollMinimizedLoop(tsfn, ws, hooksActive, minimized, Tail(hs))
         IN  IF h \in DOMAIN minimized /\ minimized[h] # nowMin
             THEN IF ~hooksActive /\ nowMin /\ (tsfn["minimized"] \/ tsfn["change"])
                  THEN Emit(tsfn, "minimized", MakePayload(ws, h)) \o rest
                  ELSE IF ~hooksActive /\ ~nowMin /\ (tsfn["restored"] \/ tsfn["change"])
                  THEN Emit(tsfn, "restored", MakePayload(ws, h)) \o rest
                  ELSE rest
             ELSE rest

MinimizedAfter(ws, minimized, current) ==
    [h \in DOMAIN minimized \cup current |->
        IF h \in current THEN IsIconic(ws[h]) ELSE minimized[h]]

\* The poller thread before it exists, and as the thread starts.
NoPoller == [pc |-> "none", nowTick |-> 0, hooksActive |-> FALSE, lastFg |-> NullHwnd,
             known |-> {}, minimized |-> <<>>]
\* A poller that starts with the windows of the moment as its known set.
NewPoller_Baseline == [NoPoller EXCEPT !.pc = "top", !.known = EnumTopLevelWindows(win)]

NewPoller == [NoPoller EXCEPT !.pc = "top"]

\* What the unified callback has been told about each handle: the kind of the
\* last created/minimized/restored/closed event and whether a 'created' event
\* was among them.
NoUni == [h \in EvHandles |-> [last |-> "none", created |-> FALSE]]

RECURSIVE UniAfter(_, _)
UniAfter(u, evs) ==
    IF evs = <<>> THEN u
    ELSE LET e == Head(evs)
             h == e.data.hwnd
         IN  IF e.chan = "change" /\ e.type # "focused" /\ h \in DOMAIN u
             THEN UniAfter([u EXCEPT ![h] =
                               [last |-> e.type,
                                created |-> u[h].created \/ e.type = "created"]],
                           Tail(evs))
             ELSE UniAfter(u, Tail(evs))

\* ------------------------------------------------------------ enumeration
\* The attributes of a top-level window that the enumeration reads.
AppFrameClass == "ApplicationFrameWindow"
Programs == {<<AppFrameClass, "ApplicationFrameHost.exe">>, <<"CabinetWClass", "explorer.exe">>, <<"Chrome_WidgetWin_1", "app.exe">>, <<"Chrome_WidgetWin_1", "WhatsApp.exe">>, <<"WinUIDesktopWin32WindowClass", "Microsoft.CmdPal.UI.exe">>}
ExStyles == {"WS_EX_TOOLWINDOW", "WS_EX_NOACTIVATE", "WS_EX_APPWINDOW", "LAYERED_ALPHA_0"}
StyleSets == {{}, {"WS_CHILD"}, {"WS_POPUP"}}
Titles == {"", "Inbox", "WhatsApp", "Command Palette"}
ChildTitles == {<<>>, <<"">>, <<"", "Mail">>, <<"Mail", "Calendar">>}
MinSide == 50
Extents == {<<50, 50>>, <<40, 200>>}
MinimizedExtent == <<160, 28>>

\* The rectangles of a window: a minimized window keeps its restored placement
\* and has the rectangle of its icon title.
Geometry == {[iconic |-> FALSE, placement |-> e, rect |-> e] : e \in Extents} \cup {[iconic |-> TRUE, placement |-> e, rect |-> MinimizedExtent] : e \in Extents}

\* What the virtual-desktop manager answers about a window (its interface query
\* fails, its membership query fails, the window is on the current desktop or on
\* another one), and what the fallback of a window on another desktop finds:
\* popupVisible, the last active popup of the root owner is visible;
\* childVisible, HasVisibleChildWindow.
VdmOutcomes == {"noInterface", "failed", "current", "other"}
DesktopAnswers == {[vdm |-> v, popupVisible |-> FALSE, childVisible |-> FALSE] : v \in VdmOutcomes \ {"other"}} \cup [vdm : {"other"}, popupVisible : BOOLEAN, childVisible : BOOLEAN]
OtherDesktop == [vdm |-> "other", popupVisible |-> FALSE, childVisible |-> FALSE]

\* An ordinary application window.
PlainWindow == [desktop |-> OtherDesktop, hwnd |-> 1, visible |-> TRUE, exStyle |-> {}, style |-> {}, title |-> "Inbox", cls |-> "Chrome_WidgetWin_1", exe |-> "app.exe", owner |-> FALSE, cloaked |-> FALSE, iconic |-> FALSE, placement |-> <<50, 50>>, rect |-> <<50, 50>>, children |-> <<>>]

TopWindows == {[desktop |-> OtherDesktop, hwnd |-> 1, visible |-> v, exStyle |-> x, style |-> st, title |-> t, cls |-> p[1], exe |-> p[2], owner |-> o, cloaked |-> c, iconic |-> g.iconic, placement |-> g.placement, rect |-> g.rect, children |-> ch] : v \in BOOLEAN, x \in SUBSET ExStyles, st \in StyleSets, t \in Titles, p \in Programs, o \in BOOLEAN, c \in BOOLEAN, g \in Geometry, ch \in ChildTitles}

\* GetWindowTitle.
GetWindowTitle(w) == w.title

\* A child-title search that stops at the first child, titled or not.
GetFirstChildTitle_FirstChild(children) == IF children = <<>> THEN "" ELSE Head(children)

RECURSIVE GetFirstChildTitle(_)
\* GetFirstChildTitle: the title of the first child, in sibling order, whose
\* title is not empty; the empty string if there is none.
GetFirstChildTitle(children) == IF children = <<>> THEN "" ELSE IF Head(children) # "" THEN Head(children) ELSE GetFirstChildTitle(Tail(children))

\* The title contains "befehlspalette" or "command palette", or the path contains
\* "microsoft.cmdpal.ui.exe", in any case of letters.
IsPowerToysCommandPalette(w) == GetWindowTitle(w) \in {"Befehlspalette", "Command Palette"} \/ w.exe = "Microsoft.CmdPal.UI.exe"

IsExplorerWindow(w) == w.cls = "CabinetWClass" \/ w.exe = "explorer.exe"

\* The title contains "whatsapp" or the path ends in "whatsapp.exe".
IsWhatsAppWindow(w) == GetWindowTitle(w) = "WhatsApp" \/ w.exe = "WhatsApp.exe"

\* An exclusion by extended style that the application-window style overrides.
ExcludedExStyle_AppWindowWins(w) == "WS_EX_APPWINDOW" \notin w.exStyle /\ w.exStyle # {}

\* "if (exStyle & WS_EX_TOOLWINDOW) return false; if (exStyle & WS_EX_NOACTIVATE)
\* return false;" and the layered window of alpha 0.
ExcludedExStyle(w) == w.exStyle \cap {"WS_EX_TOOLWINDOW", "WS_EX_NOACTIVATE", "LAYERED_ALPHA_0"} # {}

\* "if (GetWindowTextLengthW(hwnd) <= 0) { ... return false; }"
UntitledExcluded(w) == w.title = "" /\ w.cls # AppFrameClass /\ ~IsExplorerWindow(w) /\ ~IsWhatsAppWindow(w)

\* The child, popup and owner rules.
NotTopLevel(w) ==
    LET appWindow == "WS_EX_APPWINDOW" \in w.exStyle
    IN  \/ "WS_CHILD" \in w.style
        \/ ("WS_POPUP" \in w.style /\ ~appWindow /\ ~IsWhatsAppWindow(w))
        \/ (~appWindow /\ w.owner)

\* A size rule that looks at the current rectangle of every window.
SizeRect_Current(w) == w.rect

\* The rectangle the size rule looks at (GetWindowPlacement, called with its
\* length set, and GetWindowRect succeed on a live window) and the rule itself.
SizeRect(w) == IF w.iconic THEN w.placement ELSE w.rect

TooSmall(w) == SizeRect(w)[1] < MinSide \/ SizeRect(w)[2] < MinSide

\* An eligibility filter without the visibility rule.
IsAltTabEligible_Hidden(w) ==
    /\ ~IsPowerToysCommandPalette(w)
    /\ ~ExcludedExStyle(w)
    /\ ~UntitledExcluded(w)
    /\ ~NotTopLevel(w)
    /\ ~(w.cls = AppFrameClass /\ w.cloaked)
    /\ ~TooSmall(w)

\* IsAltTabEligible for a live window.
IsAltTabEligible(w) ==
    /\ ~IsPowerToysCommandPalette(w)
    /\ w.visible
    /\ ~ExcludedExStyle(w)
    /\ ~UntitledExcluded(w)
    /\ ~NotTopLevel(w)
    /\ ~(w.cls = AppFrameClass /\ w.cloaked)
    /\ ~TooSmall(w)

\* The callback of EnumTopLevelWindows for a window EnumWindows visits (a live
\* top-level window): visible, no tool window, no owner, and the current
\* rectangle at least 50x50.
EnumTopLevelWindowsProc(w) ==
    /\ w.visible
    /\ "WS_EX_TOOLWINDOW" \notin w.exStyle
    /\ ~w.owner
    /\ ~(w.rect[1] < MinSide \/ w.rect[2] < MinSide)

\* A desktop check that passes only the windows the manager reports on the
\* current desktop.
IsOnCurrentVirtualDesktop_FailClosed(w, vdmUnknown, includeAllDesktops) == includeAllDesktops \/ (vdmUnknown /\ w.desktop.vdm = "current")

\* IsOnCurrentVirtualDesktop; vdmUnknown: the manager was created.
IsOnCurrentVirtualDesktop(w, vdmUnknown, includeAllDesktops) ==
    \/ includeAllDesktops
    \/ ~vdmUnknown
    \/ w.desktop.vdm # "other"
    \/ w.visible \/ w.desktop.popupVisible
    \/ (IsWhatsAppWindow(w) /\ (w.visible \/ w.desktop.childVisible))

\* The title EnumWindowsProc records: the window's own, else a synthesized one.
TitleFor(w) ==
    IF GetWindowTitle(w) # "" THEN GetWindowTitle(w)
    ELSE LET t1 == IF w.cls = AppFrameClass THEN GetFirstChildTitle(w.children) ELSE ""
             t2 == IF t1 = "" /\ IsExplorerWindow(w)
                   THEN (IF GetFirstChildTitle(w.children) = "" THEN "Datei-Explorer"
                         ELSE GetFirstChildTitle(w.children))
                   ELSE t1
         IN  IF t2 = "" /\ IsWhatsAppWindow(w) THEN "WhatsApp" ELSE t2

\* An EnumWindowsProc that puts the record of a window before the others.
EnumWindowsProc_Prepend(windows, w, vdmUnknown, includeAllDesktops) ==
    IF ~IsAltTabEligible(w) \/ ~IsOnCurrentVirtualDesktop(w, vdmUnknown, includeAllDesktops) \/ TitleFor(w) = "" THEN windows
    ELSE <<[hwnd |-> w.hwnd, title |-> TitleFor(w), isVisible |-> w.visible]>> \o windows

\* EnumWindowsProc for the window w: the records after the visit.
EnumWindowsProc(windows, w, vdmUnknown, includeAllDesktops) ==
    IF ~IsAltTabEligible(w) THEN windows
    ELSE IF ~IsOnCurrentVirtualDesktop(w, vdmUnknown, includeAllDesktops) THEN windows
    ELSE IF TitleFor(w) = "" THEN windows
    ELSE Append(windows, [hwnd |-> w.hwnd, title |-> TitleFor(w), isVisible |-> w.visible])

\* EnumWindows(EnumWindowsProc, &ctx): the callback runs for each top-level
\* window in the order of the OS and always returns TRUE.
RECURSIVE EnumWindowsFrom(_, _, _, _, _)
EnumWindowsFrom(windows, ws, i, vdmUnknown, includeAllDesktops) ==
    IF i > Len(ws) THEN windows
    ELSE EnumWindowsFrom(EnumWindowsProc(windows, ws[i], vdmUnknown, includeAllDesktops), ws, i + 1, vdmUnknown, includeAllDesktops)

\* The threads that call GetWindowIconBase64: the main thread (GetWindows) and
\* a worker thread (GetWindowsAsyncWorker::Execute); none of them is in a call.
IconThreads == {"main", "worker"}
NoIconCalls == [t \in IconThreads |-> NullHwnd]

\* The same threads call GetOrCaptureWindowThumbnail; a call in progress holds
\* what it sampled on entry: the handle, the size asked for, the rectangle and
\* "ULONGLONG now = GetTickCount64()".
NoThumbCall == [hwnd |-> NullHwnd, size |-> <<0, 0>>, rect |-> NoRect, tick |-> 0]
NoThumbCalls == [t \in IconThreads |-> NoThumbCall]

\* The handles ThreadSafeFunction::New returns are numbered from 1; slot: the
\* handle each g_tsfnX holds (0: empty); released: the handles Release() was
\* called on; reg: the re-registration between its Release() and its
\* assignment; test: the slot whose "if (g_tsfnX)" the poller found non-empty
\* and has not called yet; called: the handle of the poller's last BlockingCall.
MaxTsfn == 3
NoHandle == 0
NoReg == [slot |-> "none", f |-> 0]
NoTsfns == [slot |-> [s \in {"created", "closed", "focused", "minimized", "restored", "change"} |-> NoHandle],
            released |-> {}, next |-> 1, reg |-> NoReg, test |-> "none", called |-> NoHandle]

\* The functions an application registers; NoFn is the empty slot.
NoFn == 0
TheFn == 1
Fns == {1, 2}

\* A registration that keeps the function a slot already holds.
Replace_KeepOld(fns, slot, f) == IF fns[slot] = NoFn THEN [fns EXCEPT ![slot] = f] ELSE fns

\* "g_tsfnX.Release(); g_tsfnX = ThreadSafeFunction::New(e, f, ...)": the slot
\* holds f, the other slots what they held.
Replace(fns, slot, f) == [fns EXCEPT ![slot] = f]

\* An EnsureHooksInstalled that never finds a hook handle set.
HooksInstalled_Never(hooks) == FALSE

\* The guard of EnsureHooksInstalled: a hook handle is set.
HooksInstalled(hooks) == hooks

\* The compare-exchange of StartFallbackEventPoller fails: a poller runs.
AlreadyRunning(running) == running

\* The notification engine before any registration.
EvIdle ==
    /\ fg = NullHwnd
    /\ pending = <<>>
    /\ g_lastHookEventTick = 0
    /\ g_tsfn = [s \in Slots |-> FALSE]
    /\ g_hooks = FALSE
    /\ g_eventPollerRunning = FALSE
    /\ g_usingFallbackEvents = FALSE
    /\ poller = NoPoller
    /\ emitted = <<>>
    /\ uni = NoUni
    /\ g_fn = [s \in Slots |-> NoFn]
    /\ hostQueue = <<>>
    /\ mainPc = "idle"
    /\ threads = 0
    /\ hookSets = 0

\* ------------------------------------------------------- the last operation
\* id alternates, so that a step that ran an operation is one that changed it.
\* A window id that is not zero but passes as valid.
ValidHandle_NonZero(ws, hwnd) == hwnd # NullHwnd

\* "if (!hwnd || !IsWindow(hwnd))" of UpdateThumbnail, OpenWindow and the two
\* workers' Execute, negated.
ValidHandle(ws, hwnd) == hwnd # NullHwnd /\ IsWindow(ws[hwnd])

NoOp == [id |-> 0, kind |-> "none", hwnd |-> NullHwnd, size |-> <<0, 0>>,
         rect |-> NoRect, tick |-> 0, how |-> "none", ret |-> EmptyPng,
         repeat |-> FALSE]

\* Whether a fetch of (hwnd, size) that samples `rect` and `tick` repeats the
\* operation `o` before it: o was a fetch of the same window and size that
\* returned through the cache (a valid entry, or a capture it stored), the
\* rectangle is the one o saw, and the entry is younger than the TTL.
Repeats(o, cache, hwnd, size, rect, tick) ==
    /\ o.kind = "fetch" /\ o.hwnd = hwnd /\ o.size = size /\ o.rect = rect
    /\ o.how \in {"hit", "write"}
    /\ (IF o.how = "write" THEN tick - o.tick ELSE tick - cache[hwnd].ts) < THUMB_TTL_MS

OpRecord(kind, hwnd, size, rect, tick, how, ret) ==
    [id |-> 1 - op.id, kind |-> kind, hwnd |-> hwnd, size |-> size,
     rect |-> rect, tick |-> tick, how |-> how, ret |-> ret,
     repeat |-> kind = "fetch" /\ Repeats(op, g_thumbCache, hwnd, size, rect, tick)]

\* The paths of an operation on which CaptureWindowScreenshot ran.
Captured(o) == o.how \in {"guard", "placeholder", "write", "nowrite"}

\* ------------------------------------------------------------ cache actions
\* One call of GetOrCaptureWindowThumbnail (from GetWindows, from
\* GetWindowsAsyncWorker::Execute, or direct).  The window may change and time
\* may pass while the capture runs.
GetOrCapture(hwnd, size) ==
    LET w0 == win[hwnd]
        Call(fresh, iconic2, placeholder) ==
            GetOrCaptureWindowThumbnail(g_thumbCache, hwnd, size[1], size[2],
                GetWindowRectOk(w0), GetWindowRect(w0), now,
                IsIconic(w0), fresh, iconic2, placeholder)
        lookup == Call(EmptyPng, FALSE, EmptyPng)
    IN  IF lookup.captures = 0
        THEN \* answered without a capture
             /\ op' = OpRecord("fetch", hwnd, size, GetWindowRect(w0), now,
                               lookup.how, lookup.ret)
             /\ UNCHANGED <<now, win, g_thumbCache>>
        ELSE \E w2 \in DuringCall(w0) :
             \E fresh \in CaptureResults(w0) :
             \E placeholder \in (IF IsIconic(w2) /\ ~isGoodPng(fresh)
                                  THEN PlaceholderOutcomes ELSE {EmptyPng}) :
             \E d \in {0, CacheTimeStep} :
                LET r == Call(fresh, IsIconic(w2), placeholder)
                IN  /\ now + d <= MaxTime
                    /\ now' = now + d
                    /\ win' = [win EXCEPT ![hwnd] = w2]
                    /\ g_thumbCache' = r.cache
                    /\ op' = OpRecord("fetch", hwnd, size, GetWindowRect(w0), now,
                                      r.how, r.ret)

\* UpdateThumbnail (async = FALSE) and UpdateThumbnailAsyncWorker::Execute
\* (async = TRUE) for the window id `hwnd`.
RefreshThumbnail(hwnd, async) ==
    IF ~ValidHandle(win, hwnd)
    THEN /\ op' = OpRecord(IF async THEN "refreshAsync" ELSE "refresh", hwnd,
                           <<DefaultWidth, DefaultHeight>>, NoRect, now,
                           "invalid", EmptyPng)
         /\ UNCHANGED <<now, win, g_thumbCache>>
    ELSE
    \E w2 \in DuringCall(win[hwnd]) :
    \E fresh \in CaptureResults(win[hwnd]) :
    \E d \in {0, CacheTimeStep} :
        LET cache2 == IF async
                      THEN UpdateThumbnailAsyncWrite(g_thumbCache, hwnd, fresh,
                               GetWindowRectOk(w2), GetWindowRect(w2), IsIconic(w2), now + d)
                      ELSE UpdateThumbnailWrite(g_thumbCache, hwnd, fresh,
                               GetWindowRectOk(w2), GetWindowRect(w2), IsIconic(w2), now + d)
        IN  /\ now + d <= MaxTime
            /\ now' = now + d
            /\ win' = [win EXCEPT ![hwnd] = w2]
            /\ g_thumbCache' = cache2
            /\ op' = OpRecord(IF async THEN "refreshAsync" ELSE "refresh", hwnd,
                              <<DefaultWidth, DefaultHeight>>, GetWindowRect(w2), now + d,
                              IF GetWindowRectOk(w2)
                                 /\ (async \/ ~(IsIconic(w2) /\ ~isGoodPng(fresh)))
                              THEN "write" ELSE "nowrite",
                              fresh)

\* ------------------------------------------------------ environment (cache)
WinMinimize(hwnd) ==
    /\ IsWindow(win[hwnd]) /\ ~win[hwnd].iconic
    /\ win' = [win EXCEPT ![hwnd].iconic = TRUE]

WinRestore(hwnd) ==
    /\ IsWindow(win[hwnd]) /\ win[hwnd].iconic
    /\ win' = [win EXCEPT ![hwnd].iconic = FALSE]

WinMove(hwnd) ==
    /\ IsWindow(win[hwnd])
    /\ \E r \in NormalRects \ {win[hwnd].normal} :
          win' = [win EXCEPT ![hwnd].normal = r]

WinDestroy(hwnd) ==
    /\ IsWindow(win[hwnd])
    /\ win' = [win EXCEPT ![hwnd] = Destroyed(win[hwnd])]

lcVars == <<g_fn, hostQueue, mainPc, threads, hookSets>>

listVars == <<topWindows, listed, vdmService, iconCalls, thumbCalls, tsfns>>

evVars == <<fg, pending, g_lastHookEventTick, g_tsfn, g_hooks, g_eventPollerRunning,
            g_usingFallbackEvents, poller, emitted, uni, lcVars>>

CacheEnv ==
    /\ \E hwnd \in QueryHandles :
          WinMinimize(hwnd) \/ WinRestore(hwnd) \/ WinMove(hwnd) \/ WinDestroy(hwnd)
    /\ UNCHANGED <<now, g_thumbCache, g_iconCache, op, listVars>>
    /\ UNCHANGED evVars

CacheTimePasses ==
    /\ now + CacheTimeStep <= MaxTime
    /\ now' = now + CacheTimeStep
    /\ UNCHANGED <<win, g_thumbCache, g_iconCache, op, listVars>>
    /\ UNCHANGED evVars

Fetch ==
    /\ \E hwnd \in QueryHandles : \E size \in Sizes : GetOrCapture(hwnd, size)
    /\ UNCHANGED <<g_iconCache, listVars, evVars>>
RefreshSync ==
    /\ \E hwnd \in QueryHandles \cup {NullHwnd} : RefreshThumbnail(hwnd, FALSE)
    /\ UNCHANGED <<g_iconCache, listVars, evVars>>
RefreshAsync ==
    /\ \E hwnd \in QueryHandles \cup {NullHwnd} : RefreshThumbnail(hwnd, TRUE)
    /\ UNCHANGED <<g_iconCache, listVars, evVars>>

CacheInit ==
    /\ now = CacheTimeStep
    /\ win = [hwnd \in Handles |->
                 [life |-> "alive", visible |-> TRUE, iconic |-> FALSE, normal |-> 1, small |-> FALSE]]
    /\ g_thumbCache = <<>>
    /\ g_iconCache = <<>>
    /\ op = NoOp
    /\ EvIdle
    /\ topWindows = <<PlainWindow>>
    /\ listed = <<>>
    /\ vdmService = TRUE
    /\ iconCalls = NoIconCalls
    /\ thumbCalls = NoThumbCalls
    /\ tsfns = NoTsfns

CacheNext == Fetch \/ RefreshSync \/ RefreshAsync \/ CacheEnv \/ CacheTimePasses

vars == <<now, win, g_thumbCache, g_iconCache, op, fg, pending, g_lastHookEventTick, g_tsfn, g_hooks,
          g_eventPollerRunning, g_usingFallbackEvents, poller, emitted, uni,
          g_fn, hostQueue, mainPc, threads, hookSets, topWindows, listed, vdmService, iconCalls, thumbCalls, tsfns>>

SpecCache == CacheInit /\ [][CacheNext]_vars

\* ----------------------------------------------------------- capture alone
\* One call of CaptureWindowScreenshot: the operation records the payload it
\* returns and, as its path, the strategy that produced the payload.
CaptureScreenshot ==
    /\ \E hwnd \in QueryHandles, size \in Sizes, ib \in BOOLEAN, wgcOn \in BOOLEAN, geomOk \in BOOLEAN :
       \E dwm \in CaptureOutcomes, wgc \in CaptureOutcomes, gdi \in CaptureOutcomes :
       \E pwFull \in BOOLEAN, pwClient \in BOOLEAN, pwDefault \in BOOLEAN :
          LET w0 == win[hwnd]
          IN  /\ ib => IsWindow(w0)
              /\ op' = OpRecord("capture", hwnd, size, GetWindowRect(w0), now,
                                CaptureStrategy(IsWindow(w0), IsIconic(w0), ib, wgcOn, dwm, wgc, geomOk, pwFull, pwClient, pwDefault),
                                CaptureWindowScreenshot(IsWindow(w0), IsIconic(w0), ib, wgcOn, dwm, wgc, geomOk, gdi))
    /\ UNCHANGED <<now, win, g_thumbCache, g_iconCache, listVars>>
    /\ UNCHANGED evVars

CaptureNext == CaptureScreenshot \/ CacheEnv

SpecCapture == CacheInit /\ [][CaptureNext]_vars

\* ------------------------------------------------------------- enumeration
\* The EnumWindows pass of GetWindows and of GetWindowsAsyncWorker::Execute:
\* the option is read, the virtual-desktop manager is created or not, and
\* EnumWindowsProc visits every window.  The icon and the thumbnail GetWindows
\* then asks for, for each record, are the actions GetIcon and Fetch.
EnumWindows ==
    /\ \E includeAllDesktops \in BOOLEAN :
          /\ listed' = EnumWindowsFrom(<<>>, topWindows, 1, vdmService, includeAllDesktops)
          /\ op' = [NoOp EXCEPT !.kind = "list", !.how = IF includeAllDesktops THEN "all" ELSE "current"]
    /\ UNCHANGED <<now, win, g_thumbCache, g_iconCache, topWindows, vdmService, iconCalls, thumbCalls, tsfns, evVars>>

ListInit ==
    /\ now = CacheTimeStep
    /\ win = [hwnd \in Handles |-> NoWindow]
    /\ g_thumbCache = <<>>
    /\ g_iconCache = <<>>
    /\ op = NoOp
    /\ EvIdle
    /\ topWindows \in {<<w>> : w \in TopWindows}
    /\ listed = <<>>
    /\ vdmService = TRUE
    /\ iconCalls = NoIconCalls
    /\ thumbCalls = NoThumbCalls
    /\ tsfns = NoTsfns

ListNext == EnumWindows

SpecList == ListInit /\ [][ListNext]_vars

\* --------------------------------------------------- enumeration of a desktop
\* The number of top-level windows of a desktop.
MaxWindows == 3

\* A tool window and an app-frame host that takes its title from a child.
ToolWindow == [PlainWindow EXCEPT !.exStyle = {"WS_EX_TOOLWINDOW"}]
HostWindow == [PlainWindow EXCEPT !.cls = AppFrameClass, !.exe = "ApplicationFrameHost.exe", !.title = "", !.children = <<"", "Mail">>]
DesktopKinds == {PlainWindow, ToolWindow, HostWindow}

\* The desktop answers of the windows of a desktop.
DesktopStates == {d \in DesktopAnswers : ~d.childVisible /\ ~d.popupVisible}

\* A desktop: n windows in the order EnumWindows visits them, their handles
\* ascending or descending in that order.
Desktop(n, k, d, up) == [i \in 1..n |-> [k[i] EXCEPT !.hwnd = IF up THEN i ELSE n + 1 - i, !.desktop = d[i]]]

DesktopInit ==
    /\ now = CacheTimeStep
    /\ win = [hwnd \in Handles |-> NoWindow]
    /\ g_thumbCache = <<>>
    /\ g_iconCache = <<>>
    /\ op = NoOp
    /\ EvIdle
    /\ \E n \in 1..MaxWindows, up \in BOOLEAN :
          \E k \in [1..n -> DesktopKinds], d \in [1..n -> DesktopStates] :
              topWindows = Desktop(n, k, d, up)
    /\ listed = <<>>
    /\ vdmService \in BOOLEAN
    /\ iconCalls = NoIconCalls
    /\ thumbCalls = NoThumbCalls
    /\ tsfns = NoTsfns

DesktopNext == EnumWindows

SpecDesktop == DesktopInit /\ [][DesktopNext]_vars

\* ------------------------------------------------------------- window ids
\* What the icon extraction yields: the empty string or an icon.
IconOutcomes == {"", "icon"}

\* GetWindowIconBase64: the cached icon of the handle, else the extracted one,
\* which is cached whatever it is.
GetWindowIconBase64(cache, hwnd, b64) == IF hwnd \in DOMAIN cache THEN [ret |-> cache[hwnd], cache |-> cache] ELSE [ret |-> b64, cache |-> CachePut(cache, hwnd, b64)]

\* The engine variables but the foreground window.
idVars == <<pending, g_lastHookEventTick, g_tsfn, g_hooks, g_eventPollerRunning, g_usingFallbackEvents, poller, emitted, uni, lcVars, listVars>>

\* GetWindows asks for the icon of a window it lists.
GetIcon ==
    /\ \E hwnd \in QueryHandles : \E b64 \in IconOutcomes :
          /\ IsWindow(win[hwnd])
          /\ g_iconCache' = GetWindowIconBase64(g_iconCache, hwnd, b64).cache
          /\ op' = OpRecord("icon", hwnd, <<0, 0>>, NoRect, now, "icon", EmptyPng)
    /\ UNCHANGED <<now, win, g_thumbCache, fg, idVars>>

\* OpenWindow (async = FALSE) and OpenWindowAsyncWorker::Execute (async = TRUE):
\* an invalid id throws or rejects; else the window is restored when iconic,
\* the foreground is requested (the OS may refuse it) and true is returned.
OpenWindow(hwnd, async) ==
    /\ IF ~ValidHandle(win, hwnd)
       THEN /\ op' = OpRecord(IF async THEN "openAsync" ELSE "open", hwnd, <<0, 0>>,
                              NoRect, now, "invalid", EmptyPng)
            /\ UNCHANGED <<win, fg>>
       ELSE /\ win' = [win EXCEPT ![hwnd].iconic = FALSE]
            /\ \E granted \in BOOLEAN : fg' = IF granted THEN hwnd ELSE fg
            /\ op' = OpRecord(IF async THEN "openAsync" ELSE "open", hwnd, <<0, 0>>,
                              GetWindowRect(win[hwnd]), now, "true", EmptyPng)
    /\ UNCHANGED <<now, g_thumbCache, g_iconCache, idVars>>

OpenWindowSync == \E hwnd \in QueryHandles \cup {NullHwnd} : OpenWindow(hwnd, FALSE)

OpenWindowAsync == \E hwnd \in QueryHandles \cup {NullHwnd} : OpenWindow(hwnd, TRUE)

\* Another window takes the foreground.
FocusLost ==
    /\ fg # NullHwnd
    /\ fg' = NullHwnd
    /\ UNCHANGED <<now, win, g_thumbCache, g_iconCache, op, listVars, idVars>>

\* The window is minimized, restored or destroyed by its user.
IdEnv ==
    /\ \E hwnd \in QueryHandles :
          \/ (WinMinimize(hwnd) \/ WinDestroy(hwnd)) /\ fg' = IF fg = hwnd THEN NullHwnd ELSE fg
          \/ WinRestore(hwnd) /\ UNCHANGED fg
    /\ UNCHANGED <<now, g_thumbCache, g_iconCache, op, listVars, idVars>>

IdNext ==
    \/ OpenWindowSync \/ OpenWindowAsync \/ RefreshSync \/ RefreshAsync
    \/ GetIcon \/ IdEnv \/ FocusLost

SpecIds == CacheInit /\ [][IdNext]_vars

\* ------------------------------------------------------ icons, two threads
\* GetWindowIconBase64 up to "if (it != g_iconCache.end()) return it->second;",
\* under the mutex: the entry is returned, or the thread goes on to resolve the
\* icon with the mutex released.
IconLookup(t, hwnd) ==
    /\ iconCalls[t] = NullHwnd
    /\ IF hwnd \in DOMAIN g_iconCache
       THEN /\ op' = [OpRecord("icon", hwnd, <<0, 0>>, NoRect, now, "hit", EmptyPng) EXCEPT !.ret = g_iconCache[hwnd]]
            /\ UNCHANGED iconCalls
       ELSE /\ op' = [OpRecord("icon", hwnd, <<0, 0>>, NoRect, now, "miss", EmptyPng) EXCEPT !.ret = ""]
            /\ iconCalls' = [iconCalls EXCEPT ![t] = hwnd]
    /\ UNCHANGED <<now, win, g_thumbCache, g_iconCache, topWindows, listed, vdmService, thumbCalls, tsfns, evVars>>

\* The rest of GetWindowIconBase64: the icon is resolved, then, under the mutex
\* again, "g_iconCache[hwnd] = b64" (or uwpIcon), and the payload is returned.
IconStore(t) ==
    /\ iconCalls[t] # NullHwnd
    /\ \E b64 \in IconOutcomes :
          /\ g_iconCache' = CachePut(g_iconCache, iconCalls[t], b64)
          /\ op' = [OpRecord("icon", iconCalls[t], <<0, 0>>, NoRect, now, "store", EmptyPng) EXCEPT !.ret = b64]
    /\ iconCalls' = [iconCalls EXCEPT ![t] = NullHwnd]
    /\ UNCHANGED <<now, win, g_thumbCache, topWindows, listed, vdmService, thumbCalls, tsfns, evVars>>

IconNext == \E t \in IconThreads : (\E hwnd \in Handles : IconLookup(t, hwnd)) \/ IconStore(t)

SpecIcons == CacheInit /\ [][IconNext]_vars

\* ------------------------------------------------- thumbnails, two threads
\* GetOrCaptureWindowThumbnail up to the capture: GetWindowRect and
\* GetTickCount64 on entry, then the lookups under g_cacheMutex. A call that
\* is answered from the cache returns; any other goes on to capture with the
\* mutex released, holding the rectangle and the tick it sampled.
ThumbLookup(t, hwnd, size) ==
    LET w0 == win[hwnd]
        lookup == GetOrCaptureWindowThumbnail(g_thumbCache, hwnd, size[1], size[2],
                      GetWindowRectOk(w0), GetWindowRect(w0), now,
                      IsIconic(w0), EmptyPng, FALSE, EmptyPng)
    IN  /\ thumbCalls[t] = NoThumbCall
        /\ IF lookup.captures = 0
           THEN /\ op' = OpRecord("fetch", hwnd, size, GetWindowRect(w0), now,
                                  lookup.how, lookup.ret)
                /\ UNCHANGED thumbCalls
           ELSE /\ op' = OpRecord("fetch", hwnd, size, GetWindowRect(w0), now,
                                  "miss", EmptyPng)
                /\ thumbCalls' = [thumbCalls EXCEPT ![t] =
                       [hwnd |-> hwnd, size |-> size, rect |-> GetWindowRect(w0),
                        tick |-> now]]
        /\ UNCHANGED <<now, win, g_thumbCache, g_iconCache, topWindows, listed,
                       vdmService, iconCalls, tsfns, evVars>>

\* The rest of the call: the capture returns, then the guard for a minimized
\* window and the write under g_cacheMutex, with the values sampled on entry.
ThumbStore(t) ==
    LET c == thumbCalls[t]
        w2 == win[c.hwnd]
    IN  /\ c # NoThumbCall
        /\ \E fresh \in CaptureResults(w2) :
           \E placeholder \in (IF IsIconic(w2) /\ ~isGoodPng(fresh)
                                THEN PlaceholderOutcomes ELSE {EmptyPng}) :
              LET r == AfterCapture(g_thumbCache, c.hwnd, c.size[1], c.size[2],
                                    c.rect, c.tick, fresh, IsIconic(w2), placeholder)
              IN  /\ g_thumbCache' = r.cache
                  /\ op' = OpRecord("fetch", c.hwnd, c.size, c.rect, c.tick, r.how, r.ret)
        /\ thumbCalls' = [thumbCalls EXCEPT ![t] = NoThumbCall]
        /\ UNCHANGED <<now, win, g_iconCache, topWindows, listed, vdmService,
                       iconCalls, tsfns, evVars>>

ThumbFetch == \E t \in IconThreads :
    (\E hwnd \in QueryHandles : \E size \in Sizes : ThumbLookup(t, hwnd, size)) \/ ThumbStore(t)

\* The window is minimized or restored while calls are in progress.
ThumbEnv ==
    /\ \E hwnd \in QueryHandles : WinMinimize(hwnd) \/ WinRestore(hwnd)
    /\ UNCHANGED <<now, g_thumbCache, g_iconCache, op, listVars>>
    /\ UNCHANGED evVars

ThumbNext == ThumbFetch \/ RefreshAsync \/ ThumbEnv \/ CacheTimePasses

SpecThumbs == CacheInit /\ [][ThumbNext]_vars

\* --------------------------------------------------- notification: registration
\* StartFallbackEventPoller: the compare-exchange on g_eventPollerRunning, then
\* the thread with its fresh locals.
\* EnsureHooksInstalled: nothing when a hook handle is set; else the ten hooks
\* and the poller.
\* onWindowCreated .. onWindowChange with a function argument: the slot is set
\* (an old function is released first), then EnsureHooksInstalled.
EnsureHooksInstalled(hooksOk) ==
    IF HooksInstalled(g_hooks)
    THEN UNCHANGED <<g_hooks, hookSets, g_eventPollerRunning, g_usingFallbackEvents,
                     poller, threads>>
    ELSE /\ g_hooks' = hooksOk
         /\ hookSets' = IF hooksOk THEN hookSets + 1 ELSE hookSets
         /\ IF AlreadyRunning(g_eventPollerRunning)
            THEN UNCHANGED <<g_eventPollerRunning, g_usingFallbackEvents, poller, threads>>
            ELSE /\ g_eventPollerRunning' = TRUE
                 /\ g_usingFallbackEvents' = TRUE
                 /\ poller' = NewPoller
                 /\ threads' = threads + 1

OnWindow(slot, f, hooksOk) ==
    /\ mainPc = "idle"
    /\ g_tsfn' = [g_tsfn EXCEPT ![slot] = TRUE]
    /\ g_fn' = Replace(g_fn, slot, f)
    /\ EnsureHooksInstalled(hooksOk)
    /\ emitted' = <<>>
    /\ UNCHANGED <<now, win, g_thumbCache, g_iconCache, op, listVars, fg, pending, g_lastHookEventTick, uni,
                   hostQueue, mainPc>>

\* A registration of the function TheFn whose hooks install.
Register(slot) == OnWindow(slot, TheFn, TRUE)

OnWindowEvent == \E slot \in RegSlots : Register(slot)

\* ------------------------------------------------------- notification: hooks
\* The message loop of the installing thread delivers the oldest queued
\* WinEvent to WinEventProcCB.
\* A hook callback that stamps the marker only when it delivers an event.
DoHookCallback_MarkOnEmit ==
    /\ g_hooks
    /\ pending # <<>>
    /\ LET sig == Head(pending)
           evs == WinEventProcCB(g_tsfn, win, fg, sig.event, sig.hwnd, sig.idObject)
       IN  /\ g_lastHookEventTick' = IF evs = <<>> THEN g_lastHookEventTick ELSE now
           /\ emitted' = evs
           /\ uni' = UniAfter(uni, evs)
    /\ pending' = Tail(pending)
    /\ UNCHANGED <<now, win, g_thumbCache, g_iconCache, op, listVars, fg, g_tsfn, g_hooks, g_eventPollerRunning,
                   g_usingFallbackEvents, poller>>

\* One invocation of WinEventProcCB for the oldest waiting signal:
\* "g_lastHookEventTick.store(GetTickCount64());" first, then the handlers.
DoHookCallback ==
    /\ g_hooks
    /\ pending # <<>>
    /\ LET sig == Head(pending)
           evs == WinEventProcCB(g_tsfn, win, fg, sig.event, sig.hwnd, sig.idObject)
       IN  /\ g_lastHookEventTick' = now
           /\ emitted' = evs
           /\ uni' = UniAfter(uni, evs)
    /\ pending' = Tail(pending)
    /\ UNCHANGED <<now, win, g_thumbCache, g_iconCache, op, listVars, fg, g_tsfn, g_hooks, g_eventPollerRunning,
                   g_usingFallbackEvents, poller>>

HookCallback == DoHookCallback /\ UNCHANGED lcVars

\* ------------------------------------------------------ notification: poller
\* "while (g_eventPollerRunning.load()) { ULONGLONG nowTick = GetTickCount64();"
DoPollReadTick ==
    /\ poller.pc = "top"
    /\ g_eventPollerRunning
    /\ poller' = [poller EXCEPT !.pc = "load", !.nowTick = now]
    /\ emitted' = <<>>
    /\ UNCHANGED <<now, win, g_thumbCache, g_iconCache, op, listVars, fg, pending, g_lastHookEventTick, g_tsfn,
                   g_hooks, g_eventPollerRunning, g_usingFallbackEvents, uni>>

PollReadTick == DoPollReadTick /\ UNCHANGED lcVars

\* "ULONGLONG lastHook = g_lastHookEventTick.load(); bool hooksActive = ...",
\* then the foreground change detection, up to "lastFg = fg;".
DoPollForeground ==
    /\ poller.pc = "load"
    /\ LET hooksActive == HooksActive(poller.nowTick, g_lastHookEventTick)
           fgTop == RootOr(win, fg)
           evs == PollFocused(g_tsfn, win, hooksActive, fgTop, poller.lastFg)
       IN  /\ poller' = [poller EXCEPT !.pc = "diff", !.nowTick = 0,
                            !.hooksActive = hooksActive, !.lastFg = fgTop]
           /\ emitted' = evs
           /\ uni' = UniAfter(uni, evs)
    /\ UNCHANGED <<now, win, g_thumbCache, g_iconCache, op, listVars, fg, pending, g_lastHookEventTick, g_tsfn,
                   g_hooks, g_eventPollerRunning, g_usingFallbackEvents>>

PollForeground == DoPollForeground /\ UNCHANGED lcVars

\* EnumTopLevelWindows, the created and closed blocks and the minimized loop,
\* up to Sleep(250).
DoPollWindows ==
    /\ poller.pc = "diff"
    /\ LET current == EnumTopLevelWindows(win)
           evs == PollCreated(g_tsfn, win, poller.hooksActive, poller.known, current)
                  \o PollClosed(g_tsfn, poller.hooksActive, poller.known, current)
                  \o PollMinimizedLoop(g_tsfn, win, poller.hooksActive, poller.minimized,
                                       SeqOf(current))
       IN  /\ poller' = [poller EXCEPT !.pc = "sleep", !.hooksActive = FALSE,
                            !.known = KnownAfter(poller.known, current),
                            !.minimized = MinimizedAfter(win, poller.minimized, current)]
           /\ emitted' = evs
           /\ uni' = UniAfter(uni, evs)
    /\ UNCHANGED <<now, win, g_thumbCache, g_iconCache, op, listVars, fg, pending, g_lastHookEventTick, g_tsfn,
                   g_hooks, g_eventPollerRunning, g_usingFallbackEvents>>

PollWindows == DoPollWindows /\ UNCHANGED lcVars

\* Time passes; Sleep(250) returns once 250ms have gone by.
EvTimePasses ==
    /\ now + EvTimeStep <= EvMaxTime
    /\ now' = now + EvTimeStep
    /\ poller' = IF poller.pc = "sleep" /\ EvTimeStep >= SleepMs
                 THEN [poller EXCEPT !.pc = "top"] ELSE poller
    /\ emitted' = <<>>
    /\ UNCHANGED <<win, g_thumbCache, g_iconCache, op, listVars, fg, pending, g_lastHookEventTick, g_tsfn, g_hooks,
                   g_eventPollerRunning, g_usingFallbackEvents, uni>>
    /\ UNCHANGED lcVars

\* ------------------------------------------------- notification: environment
\* The OS queues a WinEvent for the hooks when they are installed and the event
\* is not one it skips (WINEVENT_SKIPOWNPROCESS); the queue is bounded here.
Signal(event, hwnd, idObject) ==
    \E queued \in BOOLEAN :
        pending' = IF queued /\ g_hooks /\ Len(pending) < MaxPending
                   THEN Append(pending, [event |-> event, hwnd |-> hwnd, idObject |-> idObject])
                   ELSE pending

EvFrame == /\ emitted' = <<>>
           /\ UNCHANGED <<now, g_thumbCache, g_iconCache, op, listVars, g_lastHookEventTick, g_tsfn, g_hooks,
                          g_eventPollerRunning, g_usingFallbackEvents, poller, uni>>
           /\ UNCHANGED lcVars

WinCreated(hwnd) ==
    /\ win[hwnd].life = "none"
    /\ win' = [win EXCEPT ![hwnd] = [NoWindow EXCEPT !.life = "alive"]]
    /\ Signal("CREATE", hwnd, "OBJID_WINDOW")
    /\ UNCHANGED fg
    /\ EvFrame

WinShown(hwnd) ==
    /\ IsWindow(win[hwnd]) /\ ~win[hwnd].visible
    /\ win' = [win EXCEPT ![hwnd].visible = TRUE]
    /\ Signal("SHOW", hwnd, "OBJID_WINDOW")
    /\ UNCHANGED fg
    /\ EvFrame

WinHidden(hwnd) ==
    /\ IsWindow(win[hwnd]) /\ win[hwnd].visible
    /\ win' = [win EXCEPT ![hwnd].visible = FALSE]
    /\ fg' = IF fg = hwnd THEN NullHwnd ELSE fg
    /\ Signal("HIDE", hwnd, "OBJID_WINDOW")
    /\ EvFrame

WinMinimized(hwnd) ==
    /\ IsWindowVisible(win[hwnd]) /\ ~win[hwnd].iconic
    /\ \E small \in BOOLEAN : win' = [win EXCEPT ![hwnd].iconic = TRUE, ![hwnd].small = small]
    /\ fg' = IF fg = hwnd THEN NullHwnd ELSE fg
    /\ \E event \in {"MINIMIZESTART", "STATECHANGE"} : Signal(event, hwnd, "OBJID_WINDOW")
    /\ EvFrame

WinRestored(hwnd) ==
    /\ IsWindowVisible(win[hwnd]) /\ win[hwnd].iconic
    /\ win' = [win EXCEPT ![hwnd].iconic = FALSE, ![hwnd].small = FALSE]
    /\ \E event \in {"MINIMIZEEND", "STATECHANGE"} : Signal(event, hwnd, "OBJID_WINDOW")
    /\ UNCHANGED fg
    /\ EvFrame

WinActivated(hwnd) ==
    /\ IsWindowVisible(win[hwnd]) /\ ~win[hwnd].iconic /\ fg # hwnd
    /\ fg' = hwnd
    /\ Signal("FOREGROUND", hwnd, "OBJID_WINDOW")
    /\ UNCHANGED win
    /\ EvFrame

WinDestroyed(hwnd) ==
    /\ IsWindow(win[hwnd])
    /\ win' = [win EXCEPT ![hwnd] = Destroyed(win[hwnd])]
    /\ fg' = IF fg = hwnd THEN NullHwnd ELSE fg
    /\ Signal("DESTROY", hwnd, "OBJID_WINDOW")
    /\ EvFrame

\* An object of a live window changes state (a control is enabled, the caret
\* moves): a state-change WinEvent with no change of the window itself.
ObjectStateChanged(hwnd) ==
    /\ IsWindow(win[hwnd])
    /\ g_hooks /\ Len(pending) < MaxPending
    /\ \E idObject \in {"OBJID_CLIENT", "OBJID_CARET"} :
          pending' = Append(pending, [event |-> "STATECHANGE", hwnd |-> hwnd,
                                      idObject |-> idObject])
    /\ UNCHANGED <<win, fg>>
    /\ EvFrame

EvEnv ==
    \E hwnd \in EvHandles :
        \/ WinCreated(hwnd) \/ WinShown(hwnd) \/ WinHidden(hwnd)
        \/ WinMinimized(hwnd) \/ WinRestored(hwnd) \/ WinActivated(hwnd)
        \/ WinDestroyed(hwnd) \/ ObjectStateChanged(hwnd)

EvInit ==
    /\ now = EvTimeStep
    /\ win = [hwnd \in Handles |-> NoWindow]
    /\ g_thumbCache = <<>>
    /\ g_iconCache = <<>>
    /\ op = NoOp
    /\ EvIdle
    /\ topWindows = <<PlainWindow>>
    /\ listed = <<>>
    /\ vdmService = TRUE
    /\ iconCalls = NoIconCalls
    /\ thumbCalls = NoThumbCalls
    /\ tsfns = NoTsfns

EvNext ==
    \/ OnWindowEvent \/ HookCallback
    \/ PollReadTick \/ PollForeground \/ PollWindows
    \/ EvTimePasses \/ EvEnv

SpecEvents == EvInit /\ [][EvNext]_vars

\* ------------------------------------------------------ lifecycle and handoff
\* The fourth argument of every ThreadSafeFunction::New: max_queue_size 0, a
\* queue without a limit.
MaxQueueSize == 0

\* Registrations are bounded by the calls still queued for the host.
MaxQueued == 1

\* The slots the applications of the lifecycle specification register on.
LcSlots == {"created", "change"}

\* ThreadSafeFunction::BlockingCall returns once the call is queued: at once
\* when the queue has no limit, else when the queue has room.
BlockingCallReturns_WhenInvoked(queue) == queue = <<>>

BlockingCallReturns(queue) == MaxQueueSize = 0 \/ Len(queue) < MaxQueueSize

\* The calls a producer step queues: each event with the function its slot
\* holds at that moment.
Calls(fns, evs) == [i \in 1..Len(evs) |-> [fn |-> fns[evs[i].chan], chan |-> evs[i].chan, type |-> evs[i].type]]

\* A handoff that puts the new calls before the calls already queued.
Handoff_Front ==
    /\ BlockingCallReturns(hostQueue)
    /\ hostQueue' = Calls(g_fn, emitted') \o hostQueue
    /\ UNCHANGED <<g_fn, mainPc, threads, hookSets>>

\* BlockingCall for each event a producer step emitted, in the order of the
\* calls in the code: the ThreadSafeFunction queues them first in, first out.
Handoff ==
    /\ BlockingCallReturns(hostQueue)
    /\ hostQueue' = hostQueue \o Calls(g_fn, emitted')
    /\ UNCHANGED <<g_fn, mainPc, threads, hookSets>>

\* The six registration handlers, with the outcome of SetWinEventHook.
LcRegister ==
    /\ Len(hostQueue) <= MaxQueued
    /\ \E slot \in LcSlots, f \in Fns, hooksOk \in BOOLEAN : OnWindow(slot, f, hooksOk)

\* WinEventProcCB runs on the main thread, between two of its handlers.
LcHookCallback == mainPc = "idle" /\ DoHookCallback /\ Handoff

LcPollReadTick == DoPollReadTick /\ UNCHANGED lcVars

LcPollForeground == DoPollForeground /\ Handoff

LcPollWindows == DoPollWindows /\ Handoff

\* Sleep(250) returns.
LcSleepReturns ==
    /\ poller.pc = "sleep"
    /\ now + EvTimeStep <= EvMaxTime
    /\ now' = now + EvTimeStep
    /\ poller' = [poller EXCEPT !.pc = "top"]
    /\ emitted' = <<>>
    /\ UNCHANGED <<win, g_thumbCache, g_iconCache, op, listVars, fg, pending, g_lastHookEventTick, g_tsfn, g_hooks,
                   g_eventPollerRunning, g_usingFallbackEvents, uni>>
    /\ UNCHANGED lcVars

\* "while (g_eventPollerRunning.load())" reads false: the thread function returns.
PollExit ==
    /\ poller.pc = "top"
    /\ ~g_eventPollerRunning
    /\ poller' = [poller EXCEPT !.pc = "exit"]
    /\ threads' = threads - 1
    /\ emitted' = <<>>
    /\ UNCHANGED <<now, win, g_thumbCache, g_iconCache, op, listVars, fg, pending, g_lastHookEventTick, g_tsfn,
                   g_hooks, g_eventPollerRunning, g_usingFallbackEvents, uni,
                   g_fn, hostQueue, mainPc, hookSets>>

\* What StopWindowEvents leaves in the slots: "if (g_tsfnX) { g_tsfnX.Release();
\* g_tsfnX = ThreadSafeFunction(); }" for each of the six.
ReleaseAll_KeepChange(fns) == [s \in Slots |-> IF s = "change" THEN fns[s] ELSE NoFn]

ReleaseAll(fns) == [s \in Slots |-> NoFn]

\* What StopFallbackEventPoller stores in g_usingFallbackEvents after the join.
FallbackAfterStop(using) == FALSE

\* StopWindowEvents up to the join: UninstallHooks unhooks every hook, then
\* StopFallbackEventPoller returns at once when no poller runs, else clears the
\* flag and joins the thread.
StopWindowEvents ==
    /\ mainPc = "idle"
    /\ now + EvTimeStep <= EvMaxTime
    /\ g_hooks' = FALSE
    /\ hookSets' = IF g_hooks THEN hookSets - 1 ELSE hookSets
    /\ pending' = <<>>
    /\ IF ~g_eventPollerRunning
       THEN /\ g_fn' = ReleaseAll(g_fn)
            /\ g_tsfn' = [s \in Slots |-> ReleaseAll(g_fn)[s] # NoFn]
            /\ UNCHANGED <<g_eventPollerRunning, g_usingFallbackEvents, poller, mainPc>>
       ELSE /\ g_eventPollerRunning' = FALSE
            /\ mainPc' = "join"
            /\ UNCHANGED <<g_fn, g_tsfn, g_usingFallbackEvents, poller>>
    /\ emitted' = <<>>
    /\ UNCHANGED <<now, win, g_thumbCache, g_iconCache, op, listVars, fg, g_lastHookEventTick, uni, hostQueue,
                   threads>>

\* The join returns: "g_usingFallbackEvents.store(false)", then the slots are
\* released and StopWindowEvents returns.
StopJoined ==
    /\ mainPc = "join"
    /\ poller.pc = "exit"
    /\ poller' = NoPoller
    /\ g_usingFallbackEvents' = FallbackAfterStop(g_usingFallbackEvents)
    /\ g_fn' = ReleaseAll(g_fn)
    /\ g_tsfn' = [s \in Slots |-> ReleaseAll(g_fn)[s] # NoFn]
    /\ mainPc' = "idle"
    /\ emitted' = <<>>
    /\ UNCHANGED <<now, win, g_thumbCache, g_iconCache, op, listVars, fg, pending, g_lastHookEventTick, g_hooks,
                   g_eventPollerRunning, uni, hostQueue, threads, hookSets>>

\* IsUsingFallbackEvents: "return Boolean::New(env, g_usingFallbackEvents.load())".
IsUsingFallbackEvents == g_usingFallbackEvents

\* The host's main loop runs the oldest queued call.
HostInvoke ==
    /\ mainPc = "idle"
    /\ hostQueue # <<>>
    /\ hostQueue' = Tail(hostQueue)
    /\ emitted' = <<>>
    /\ UNCHANGED <<now, win, g_thumbCache, g_iconCache, op, listVars, fg, pending, g_lastHookEventTick, g_tsfn,
                   g_hooks, g_eventPollerRunning, g_usingFallbackEvents, poller, uni,
                   g_fn, mainPc, threads, hookSets>>

LcEnv ==
    \E hwnd \in EvHandles :
        \/ WinCreated(hwnd) \/ WinShown(hwnd) \/ WinActivated(hwnd) \/ WinDestroyed(hwnd)

PollerStep == LcPollReadTick \/ LcPollForeground \/ LcPollWindows \/ PollExit

LcNext ==
    \/ LcRegister \/ StopWindowEvents \/ StopJoined \/ HostInvoke
    \/ LcHookCallback \/ PollerStep \/ LcSleepReturns \/ LcEnv

SpecLifecycle == EvInit /\ [][LcNext]_vars

\* ------------------------------------- notification: re-registration race
\* The slots are plain globals: the poller thread reads them and the main
\* thread releases and assigns them with no lock in between, so the steps of
\* the two threads interleave at every access.
raceFrame == <<now, win, g_thumbCache, g_iconCache, op, topWindows, listed, vdmService,
               iconCalls, thumbCalls, fg, pending, g_lastHookEventTick, uni, hostQueue,
               mainPc>>

\* A registration handler up to the assignment of an empty slot, or up to
\* "g_tsfnX.Release();" of a slot that holds a handle.
RaceRegister(slot, f, hooksOk) ==
    /\ tsfns.reg = NoReg
    /\ tsfns.next <= MaxTsfn
    /\ IF tsfns.slot[slot] = NoHandle
       THEN /\ tsfns' = [tsfns EXCEPT !.slot[slot] = tsfns.next, !.next = tsfns.next + 1]
            /\ g_tsfn' = [g_tsfn EXCEPT ![slot] = TRUE]
            /\ g_fn' = Replace(g_fn, slot, f)
            /\ EnsureHooksInstalled(hooksOk)
       ELSE /\ tsfns' = [tsfns EXCEPT !.released = @ \cup {tsfns.slot[slot]},
                                      !.reg = [slot |-> slot, f |-> f]]
            /\ UNCHANGED <<g_tsfn, g_fn, g_hooks, hookSets, g_eventPollerRunning,
                           g_usingFallbackEvents, poller, threads>>
    /\ emitted' = <<>>
    /\ UNCHANGED raceFrame

\* "g_tsfnX = ThreadSafeFunction::New(e, f, ...); EnsureHooksInstalled();" of
\* the re-registration in progress.
RaceAssign(hooksOk) ==
    /\ tsfns.reg # NoReg
    /\ tsfns' = [tsfns EXCEPT !.slot[tsfns.reg.slot] = tsfns.next,
                              !.next = tsfns.next + 1, !.reg = NoReg]
    /\ g_tsfn' = [g_tsfn EXCEPT ![tsfns.reg.slot] = TRUE]
    /\ g_fn' = Replace(g_fn, tsfns.reg.slot, tsfns.reg.f)
    /\ EnsureHooksInstalled(hooksOk)
    /\ emitted' = <<>>
    /\ UNCHANGED raceFrame

\* The poller thread evaluates "if (g_tsfnX)" for an event it has to deliver
\* and finds the slot non-empty.
RacePollTest(slot) ==
    /\ g_eventPollerRunning
    /\ tsfns.test = "none"
    /\ tsfns.slot[slot] # NoHandle
    /\ tsfns' = [tsfns EXCEPT !.test = slot]
    /\ UNCHANGED <<g_tsfn, g_fn, g_hooks, hookSets, g_eventPollerRunning,
                   g_usingFallbackEvents, poller, threads, emitted>>
    /\ UNCHANGED raceFrame

\* "g_tsfnX.BlockingCall(...)": the call goes to the handle the slot holds now.
RacePollCall ==
    /\ tsfns.test # "none"
    /\ tsfns' = [tsfns EXCEPT !.test = "none", !.called = tsfns.slot[tsfns.test]]
    /\ UNCHANGED <<g_tsfn, g_fn, g_hooks, hookSets, g_eventPollerRunning,
                   g_usingFallbackEvents, poller, threads, emitted>>
    /\ UNCHANGED raceFrame

RaceNext ==
    \/ \E slot \in RegSlots, f \in Fns, hooksOk \in BOOLEAN : RaceRegister(slot, f, hooksOk)
    \/ \E hooksOk \in BOOLEAN : RaceAssign(hooksOk)
    \/ \E slot \in RegSlots : RacePollTest(slot)
    \/ RacePollCall

SpecRace == EvInit /\ [][RaceNext]_vars

\* One application with one function on the unified slot.
JoinRegister ==
    /\ Len(hostQueue) <= MaxQueued
    /\ \E hooksOk \in BOOLEAN : OnWindow("change", TheFn, hooksOk)

JoinNext ==
    \/ JoinRegister \/ StopWindowEvents \/ StopJoined \/ HostInvoke
    \/ LcHookCallback \/ PollerStep \/ LcSleepReturns \/ LcEnv

\* The operating system schedules the poller thread and ends its Sleep, and
\* the join returns once the thread has finished.
SpecJoin ==
    /\ EvInit /\ [][JoinNext]_vars
    /\ WF_vars(PollerStep) /\ WF_vars(LcSleepReturns) /\ WF_vars(StopJoined)


\* ------------------------------------------------------------------ claims
\* A step that ran a thumbnail fetch (GetOrCaptureWindowThumbnail).
FetchStep == op'.id # op.id /\ op'.kind = "fetch"

\* C1 (as claimed): once the cache entry of a handle holds a good payload, no
\* later cache write replaces it with a degenerate one, whatever the window's
\* state at the write.
C1_MonotonicQualityGuard ==
    [][\A hwnd \in DOMAIN g_thumbCache :
          isGoodPng(g_thumbCache[hwnd].base64) => isGoodPng(g_thumbCache'[hwnd].base64)]_vars

\* C2 (as claimed): a second fetch of the same window and size, less than 800ms
\* after the first and with the same bounding rectangle, returns the payload of
\* the first, captures nothing and leaves the cache alone.
C2_CacheHitAnyFetch ==
    [][(/\ FetchStep /\ op.kind = "fetch"
        /\ op'.hwnd = op.hwnd /\ op'.size = op.size /\ op'.rect = op.rect
        /\ op'.tick - op.tick < THUMB_TTL_MS)
       => (/\ op'.ret = op.ret
           /\ ~Captured(op')
           /\ g_thumbCache' = g_thumbCache)]_vars

\* C2 (amended): when the first fetch returned through the cache (from a valid
\* entry, or by storing its capture) and the second, of the same window, size
\* and rectangle, samples the clock less than 800ms after that entry's
\* timestamp, the second returns the payload of the first, captures nothing and
\* leaves the cache alone.
C2_CacheHit ==
    [][(/\ FetchStep /\ op.kind = "fetch"
        /\ op'.hwnd = op.hwnd /\ op'.size = op.size /\ op'.rect = op.rect
        /\ op.how \in {"hit", "write"}
        /\ (IF op.how = "write" THEN op'.tick - op.tick
                                ELSE op'.tick - g_thumbCache[op.hwnd].ts) < THUMB_TTL_MS)
       => (/\ op'.ret = op.ret
           /\ ~Captured(op')
           /\ g_thumbCache' = g_thumbCache)]_vars

\* A second fetch within the TTL of the entry the first one returned has run and
\* was answered from the cache.
C2_Witness ==
    /\ op.kind = "fetch" /\ op.repeat /\ op.how = "hit"
    /\ isGoodPng(op.ret)

\* The entry of hwnd (before the step) matches what the fetch of the step
\* sampled: rectangle, requested size, age below 800ms.
C3_EntryMatches(hwnd) ==
    /\ hwnd \in DOMAIN g_thumbCache
    /\ g_thumbCache[hwnd].rect = GetWindowRect(win[hwnd])
    /\ <<g_thumbCache[hwnd].w, g_thumbCache[hwnd].h>> = op'.size
    /\ now - g_thumbCache[hwnd].ts < 800

\* C3 (as claimed): a fetch returns a cached payload without capturing only when
\* the entry is valid; a fetch that finds an entry whose rectangle differs or
\* whose age is 800ms or more captures again, minimized window or not.
C3_ValidOnlyAnyWindow ==
    [][FetchStep =>
        /\ (op'.how \in {"hit", "lastgood"} => C3_EntryMatches(op'.hwnd))
        /\ (/\ IsWindow(win[op'.hwnd])
            /\ op'.hwnd \in DOMAIN g_thumbCache
            /\ ~C3_EntryMatches(op'.hwnd)
            => Captured(op'))]_vars

\* C3 (amended): a fetch returns a cached payload without capturing only when
\* the entry is valid, or when the window is minimized and the entry's payload
\* is good; for a window that is not minimized, a fetch that finds an entry
\* whose rectangle or size differs or whose age is 800ms or more captures again.
C3_ValidOnly ==
    [][FetchStep =>
        /\ (op'.how \in {"hit", "lastgood"}
            => \/ C3_EntryMatches(op'.hwnd)
               \/ /\ IsIconic(win[op'.hwnd])
                  /\ op'.hwnd \in DOMAIN g_thumbCache
                  /\ g_thumbCache[op'.hwnd].base64.len > PrefixLen + GoodThreshold)
        /\ (/\ IsWindow(win[op'.hwnd]) /\ ~IsIconic(win[op'.hwnd])
            /\ op'.hwnd \in DOMAIN g_thumbCache
            /\ ~C3_EntryMatches(op'.hwnd)
            => Captured(op'))]_vars

\* A fetch of a minimized window was answered with the last good payload although
\* the entry was written for another rectangle.
C3_Witness ==
    /\ op.kind = "fetch" /\ op.how = "lastgood"
    /\ g_thumbCache[op.hwnd].rect # op.rect
    /\ op.ret = g_thumbCache[op.hwnd].base64


\* ----------------------------------------------------- claims: notification
\* The steps of the poller thread that can deliver: the one that decides whether
\* the tick is suppressed and handles the foreground, and the one that handles
\* the window set.
ForegroundStep == poller.pc = "load" /\ poller'.pc = "diff"
WindowsStep == poller.pc = "diff" /\ poller'.pc = "sleep"
HookStep == pending # <<>> /\ pending' = Tail(pending)

\* evs holds a delivery of an event of kind `type` for hwnd on channel chan.
DeliveredOn(evs, chan, type, hwnd) ==
    \E i \in 1..Len(evs) :
        evs[i].chan = chan /\ evs[i].type = type /\ evs[i].data.hwnd = hwnd

\* evs holds an event of kind `type` for hwnd on every registered channel that
\* takes the kind.
DeliveredToRegistered(evs, type, hwnd) ==
    \A chan \in {type, "change"} : g_tsfn[chan] => DeliveredOn(evs, chan, type, hwnd)

\* The number of deliveries of kind `type` for hwnd on the unified channel.
UnifiedCount(evs, type, hwnd) ==
    Cardinality({i \in 1..Len(evs) :
        evs[i].chan = "change" /\ evs[i].type = type /\ evs[i].data.hwnd = hwnd})

\* The windows an enumeration finds, read off the window table.
VisibleWindows == {h \in EvHandles : win[h].life = "alive" /\ win[h].visible /\ ~(win[h].iconic /\ win[h].small)}

\* C4 (as claimed): the unified channel is told 'created' at most once for a
\* handle, whichever way the hook callback and the poller tick interleave.
C4_ExactlyOneCreated ==
    [][\A h \in EvHandles :
          UnifiedCount(emitted', "created", h) + (IF uni[h].created THEN 1 ELSE 0) <= 1]_vars

\* C5: a tick whose clock read is more than 1000ms after the last hook callback
\* (or that finds no hook callback ever ran) is not suppressed, and an
\* unsuppressed tick delivers every change it detects (foreground, windows that
\* entered or left the enumerated set, minimized-flag transitions) to the
\* registered callbacks in that tick.
C5_ArbitrationRecovery ==
    [][/\ (/\ ForegroundStep
           /\ \/ g_lastHookEventTick = 0
              \/ /\ g_lastHookEventTick <= poller.nowTick
                 /\ poller.nowTick - g_lastHookEventTick > 1000)
          => /\ ~poller'.hooksActive
             /\ (fg # NullHwnd /\ fg # poller.lastFg
                 => DeliveredToRegistered(emitted', "focused", fg))
       /\ (WindowsStep /\ ~poller.hooksActive)
          => /\ \A h \in VisibleWindows \ poller.known :
                   DeliveredToRegistered(emitted', "created", h)
             /\ \A h \in poller.known \ VisibleWindows :
                   DeliveredToRegistered(emitted', "closed", h)
             /\ \A h \in VisibleWindows \cap DOMAIN poller.minimized :
                   poller.minimized[h] # win[h].iconic
                   => DeliveredToRegistered(emitted',
                          IF win[h].iconic THEN "minimized" ELSE "restored", h)]_vars

\* The poller has delivered a change it detected in a tick that began more than
\* 1000ms after the last hook callback.
C5_Witness ==
    /\ poller.pc = "sleep" /\ emitted # <<>>
    /\ g_lastHookEventTick # 0
    /\ now - g_lastHookEventTick > 1000

\* C6 (as claimed): a tick that decides within 1000ms of a hook callback is
\* suppressed, and a suppressed tick delivers nothing.
C6_ArbitrationRule ==
    [][/\ (/\ ForegroundStep
           /\ g_lastHookEventTick # 0
           /\ now - g_lastHookEventTick < 1000)
          => poller'.hooksActive /\ emitted' = <<>>
       /\ (WindowsStep /\ poller.hooksActive) => emitted' = <<>>]_vars

\* C7: at the end of a tick the known set is the enumerated set, the minimized
\* flag of every enumerated window is the one sampled, and the remembered
\* foreground is the one sampled, suppressed tick or not.
C7_PollerBaseline ==
    [][/\ ForegroundStep => poller'.lastFg = fg
       /\ WindowsStep
          => /\ poller'.known = VisibleWindows
             /\ \A h \in VisibleWindows :
                   /\ h \in DOMAIN poller'.minimized
                   /\ poller'.minimized[h] = win[h].iconic]_vars

\* A suppressed tick has ended with a minimized window in its baseline.
C7_Witness ==
    /\ poller.pc = "sleep"
    /\ g_lastHookEventTick = now
    /\ \E h \in poller.known : poller.minimized[h] /\ uni[h].last # "minimized"

\* The unified events of evs for hwnd keep to the state machine when the last
\* one before them was `last`.
RECURSIVE C8_Follows(_, _, _)
C8_Follows(last, evs, hwnd) ==
    IF evs = <<>> THEN TRUE
    ELSE LET e == Head(evs)
         IN  IF e.chan = "change" /\ e.type # "focused" /\ e.data.hwnd = hwnd
             THEN /\ last # "closed"
                  /\ (e.type \in {"minimized", "restored"} => e.type # last)
                  /\ C8_Follows(e.type, Tail(evs), hwnd)
             ELSE C8_Follows(last, Tail(evs), hwnd)

\* C8 (as claimed): on the unified channel no handle gets two 'minimized' (or two
\* 'restored') events in a row, nor any created/minimized/restored event after
\* its 'closed'.
C8_EventStateMachine ==
    [][\A h \in EvHandles : C8_Follows(uni[h].last, emitted', h)]_vars

\* C9 (as claimed): once a window the unified callback was told about has been
\* destroyed, every queued WinEvent has been handled and the poller has ended a
\* tick without the handle in its known set, the unified callback has been told
\* 'closed'.
C9_ClosedDelivered ==
    \A h \in EvHandles :
        (/\ win[h].life = "dead"
         /\ uni[h].last # "none"
         /\ g_tsfn["change"]
         /\ pending = <<>>
         /\ poller.pc = "sleep" /\ h \notin poller.known)
        => uni[h].last = "closed"

\* C10: every delivery goes to a registered channel, and its event reaches the
\* other channel of its kind exactly when that one is registered, with the same
\* handle, title, path, visible flag and kind; an object-create or foreground
\* WinEvent for a live window and a window the unsuppressed poller finds new
\* reach each of the two channels exactly when it is registered.
C10_FanOut ==
    [][/\ \A i \in 1..Len(emitted') :
             LET e == emitted'[i]
                 other == IF e.chan = "change" THEN e.type ELSE "change"
             IN  /\ g_tsfn[e.chan]
                 /\ e.chan \in {e.type, "change"}
                 /\ g_tsfn[other] <=> \E j \in 1..Len(emitted') :
                                         emitted'[j] = [e EXCEPT !.chan = other]
       /\ (HookStep /\ g_hooks /\ Head(pending).event \in {"CREATE", "FOREGROUND"}
             /\ win[Head(pending).hwnd].life = "alive")
          => \A chan \in {IF Head(pending).event = "CREATE" THEN "created" ELSE "focused",
                          "change"} :
                g_tsfn[chan] <=>
                    DeliveredOn(emitted', chan,
                                IF Head(pending).event = "CREATE" THEN "created" ELSE "focused",
                                Head(pending).hwnd)
       /\ (WindowsStep /\ ~poller.hooksActive)
          => \A h \in VisibleWindows \ poller.known :
                \A chan \in {"created", "change"} :
                    g_tsfn[chan] <=> DeliveredOn(emitted', chan, "created", h)]_vars

\* One event has been delivered to its specific callback and to the unified one.
C10_Witness ==
    /\ Len(emitted) = 2
    /\ emitted[1].chan = emitted[1].type
    /\ emitted[2] = [emitted[1] EXCEPT !.chan = "change"]

\* ---------------------------------------------------------------- C11 .. C16
\* The calls a step adds to the host's queue.
NewCalls == IF Len(hostQueue') > Len(hostQueue) THEN SubSeq(hostQueue', Len(hostQueue) + 1, Len(hostQueue')) ELSE <<>>

\* C11: after a registration call with callback f returns, the slot of that kind
\* holds f and only f, the other five slots hold what they held, and every
\* event produced from then on is handed to the function its slot holds at
\* that moment, so never to a function that was replaced.
C11_SubscriptionReplace ==
    [][ /\ \A slot \in LcSlots, f \in Fns, hooksOk \in BOOLEAN :
              OnWindow(slot, f, hooksOk) =>
                  /\ g_fn'[slot] = f /\ g_tsfn'[slot]
                  /\ \A other \in Slots \ {slot} :
                        g_fn'[other] = g_fn[other] /\ g_tsfn'[other] = g_tsfn[other]
        /\ \A i \in 1..Len(NewCalls) :
              NewCalls[i].fn # NoFn /\ NewCalls[i].fn = g_fn'[NewCalls[i].chan] ]_vars

\* C11 witness: a slot was re-registered with another function while a call to
\* the function it held before is still queued, and the other slot kept its own.
C11_Witness ==
    /\ g_fn["created"] = 2 /\ g_fn["change"] = 1
    /\ \E i \in 1..Len(hostQueue) : hostQueue[i].chan = "created" /\ hostQueue[i].fn = 1

\* The state of the notification engine that the program owns.
engineVars == <<g_tsfn, g_fn, g_hooks, hookSets, g_eventPollerRunning, g_usingFallbackEvents, poller, threads, hostQueue, pending, mainPc>>

\* StopWindowEvents returns in this step.
StopReturns == StopJoined \/ (StopWindowEvents /\ mainPc' = "idle")

\* C12: when stopWindowEvents returns, no hook is installed, no poller thread
\* runs, the six slots are empty and isUsingFallbackEvents reports false.
C12_TeardownPostState ==
    [][ StopReturns =>
          /\ ~g_hooks' /\ hookSets' = 0
          /\ ~g_eventPollerRunning' /\ threads' = 0 /\ poller' = NoPoller
          /\ \A s \in Slots : g_fn'[s] = NoFn /\ ~g_tsfn'[s]
          /\ ~IsUsingFallbackEvents' ]_vars

\* C12 witness: a teardown has returned after notifications ran: calls from
\* the torn-down registration are still queued and every slot is empty.
C12_Witness ==
    /\ mainPc = "idle" /\ hostQueue # <<>>
    /\ \A s \in Slots : g_fn[s] = NoFn
    /\ ~g_hooks /\ ~g_eventPollerRunning

\* C13: a registration while hooks are installed installs no second hook set
\* and starts no second poller; a teardown while nothing runs changes nothing;
\* there is never more than one poller thread or one hook set.
C13_IdempotentGuards ==
    [][ /\ \A slot \in LcSlots, f \in Fns, hooksOk \in BOOLEAN :
              (g_hooks /\ OnWindow(slot, f, hooksOk)) =>
                  UNCHANGED <<g_hooks, hookSets, g_eventPollerRunning, poller, threads>>
        /\ (~g_hooks /\ ~g_eventPollerRunning /\ StopWindowEvents) => UNCHANGED engineVars
        /\ threads' <= 1 /\ hookSets' <= 1 ]_vars

\* C13 witness: both slots were registered, one of them twice, and one hook set
\* and one poller thread exist.
C13_Witness ==
    /\ g_hooks /\ hookSets = 1 /\ threads = 1 /\ g_eventPollerRunning
    /\ g_fn["created"] = 2 /\ g_fn["change"] # NoFn
    /\ \E i \in 1..Len(hostQueue) : hostQueue[i].chan = "created" /\ hostQueue[i].fn = 1
    /\ g_lastHookEventTick # 0

C15_BlockingHandoff == Len(hostQueue) <= 1

\* C16: isUsingFallbackEvents returns true exactly in poller-only mode
\* (notifications active and no hook installed), and false when the hooks
\* were installed and when notifications are stopped.
C16_Introspection == mainPc = "idle" => (IsUsingFallbackEvents <=> (g_eventPollerRunning /\ ~g_hooks))

\* ---------------------------------------------------------------- C17 .. C20
\* C17: OpenWindow and UpdateThumbnail, synchronous and asynchronous, called
\* with a zero id or the id of a window that no longer exists fail explicitly
\* (throw, or reject), capture nothing, leave both caches unchanged and issue
\* no restore or focus request; OpenWindow on a live window returns true.
C17_InvalidHandle ==
    [][ (op'.id # op.id /\ op'.kind \in {"refresh", "refreshAsync", "open", "openAsync"}) =>
          IF op'.hwnd = NullHwnd \/ ~IsWindow(win[op'.hwnd])
          THEN /\ op'.how = "invalid" /\ ~Captured(op')
               /\ UNCHANGED <<g_thumbCache, g_iconCache, win, fg>>
          ELSE op'.kind \in {"open", "openAsync"} => op'.how = "true" ]_vars

\* C17 witness: an asynchronous OpenWindow was rejected for the id of a
\* destroyed window that has a good thumbnail and an icon in the caches.
C17_Witness ==
    /\ op.kind = "openAsync" /\ op.how = "invalid" /\ op.hwnd # NullHwnd
    /\ op.hwnd \in DOMAIN g_iconCache /\ op.hwnd \in DOMAIN g_thumbCache
    /\ isGoodPng(g_thumbCache[op.hwnd].base64)

\* C18: for the same window id, window state and prior cache, the synchronous
\* and the asynchronous UpdateThumbnail return the same payload and leave the
\* cache in the same state, and neither writes a degenerate capture over a
\* good entry.
C18_RefreshEquivalence ==
    \A hwnd \in QueryHandles :
        IsWindow(win[hwnd]) =>
            \A fresh \in CaptureResults(win[hwnd]) :
                LET w == win[hwnd]
                    sync == UpdateThumbnailWrite(g_thumbCache, hwnd, fresh, GetWindowRectOk(w),
                                                 GetWindowRect(w), IsIconic(w), now)
                    async == UpdateThumbnailAsyncWrite(g_thumbCache, hwnd, fresh, GetWindowRectOk(w),
                                                       GetWindowRect(w), IsIconic(w), now)
                IN  /\ sync = async
                    /\ (HasGood(g_thumbCache, hwnd) /\ ~isGoodPng(fresh)) =>
                           HasGood(sync, hwnd) /\ HasGood(async, hwnd)

\* The window of an enumeration over one window.
topWindow == topWindows[1]

\* C19: a window with the tool-window extended style is in no enumeration,
\* whatever its title, class, size, owner, application-window style and the
\* includeAllDesktops flag.
C19_ToolWindows == "WS_EX_TOOLWINDOW" \in topWindow.exStyle => listed = <<>>

\* C19 witness: an enumeration has visited a tool window that has the
\* application-window style and passes every other rule.
C19_Witness ==
    /\ op.kind = "list"
    /\ topWindow.exStyle = {"WS_EX_TOOLWINDOW", "WS_EX_APPWINDOW"}
    /\ topWindow.visible /\ topWindow.title # "" /\ topWindow.owner
    /\ topWindow.style = {} /\ ~TooSmall(topWindow) /\ ~IsPowerToysCommandPalette(topWindow)

\* The titles of the children that have one, in sibling order.
RECURSIVE TitledChildren(_)
TitledChildren(children) == IF children = <<>> THEN <<>> ELSE (IF Head(children) # "" THEN <<Head(children)>> ELSE <<>>) \o TitledChildren(Tail(children))

\* The eligibility rules other than the title rule.
OtherwiseEligible(w) ==
    /\ w.visible /\ ~TooSmall(w) /\ ~NotTopLevel(w)
    /\ ~(w.cls = AppFrameClass /\ w.cloaked)
    /\ ~ExcludedExStyle(w) /\ ~IsPowerToysCommandPalette(w)

\* C20: an enumeration lists a visible, uncloaked, large enough top-level
\* window of the app-frame host class that has an empty title and a titled child
\* (and none of the excluding styles) under the title of its first titled
\* child; it does not list an otherwise eligible window with an empty title for
\* which no title can be synthesized.
C20_TitleSynthesis ==
    (op.kind = "list" /\ OtherwiseEligible(topWindow) /\ topWindow.title = "") =>
        /\ (topWindow.cls = AppFrameClass /\ TitledChildren(topWindow.children) # <<>>) =>
              listed = <<[hwnd |-> topWindow.hwnd, title |-> Head(TitledChildren(topWindow.children)), isVisible |-> TRUE]>>
        /\ (/\ ~(topWindow.cls = AppFrameClass /\ TitledChildren(topWindow.children) # <<>>)
            /\ ~IsExplorerWindow(topWindow) /\ ~IsWhatsAppWindow(topWindow)) =>
              listed = <<>>

\* C20 witness: an app-frame host with an empty title, an untitled first child
\* and a titled second child was listed.
C20_Witness ==
    /\ op.kind = "list" /\ listed # <<>>
    /\ topWindow.cls = AppFrameClass /\ topWindow.title = ""
    /\ topWindow.children = <<"", "Mail">>

\* ---------------------------------------------------------------- C21 .. C30
\* The eligibility rules other than the size rule, and a title to list under.
C21_OtherRulesPass(w) ==
    /\ w.visible /\ ~NotTopLevel(w) /\ ~UntitledExcluded(w)
    /\ ~(w.cls = AppFrameClass /\ w.cloaked)
    /\ ~ExcludedExStyle(w) /\ ~IsPowerToysCommandPalette(w)
    /\ TitleFor(w) # ""

C21_Excluded ==
    /\ op.kind = "list" /\ listed = <<>> /\ C21_OtherRulesPass(topWindow)
    /\ ~topWindow.iconic /\ topWindow.rect = <<40, 200>>

\* The handles of the records of an enumeration.
ListedHandles == {listed[j].hwnd : j \in 1..Len(listed)}

\* C22: in an enumeration of the current desktop only, no eligible window is
\* left out when the virtual-desktop manager is unavailable, when its
\* interface query fails or when its membership query fails.
C22_DesktopFailOpen ==
    (op.kind = "list" /\ op.how = "current") =>
        \A i \in 1..Len(topWindows) :
            LET w == topWindows[i]
            IN  (/\ IsAltTabEligible(w) /\ TitleFor(w) # ""
                 /\ (~vdmService \/ w.desktop.vdm \in {"noInterface", "failed"}))
                => w.hwnd \in ListedHandles

\* C22 witness: an enumeration of the current desktop has listed a window
\* whose membership query failed, next to a window the manager reports on
\* another desktop.
C22_Witness ==
    /\ op.kind = "list" /\ op.how = "current" /\ vdmService
    /\ Len(topWindows) = 2
    /\ topWindows[1].desktop.vdm = "failed" /\ topWindows[1].hwnd \in ListedHandles
    /\ topWindows[2].desktop.vdm = "other"

\* C22 witness of the unavailable manager: an enumeration of the current
\* desktop without a manager has listed a window.
C22_Unavailable == op.kind = "list" /\ op.how = "current" /\ ~vdmService /\ listed # <<>>

\* C23: the records of an enumeration are the windows of the OS enumeration
\* that pass the eligibility filter, the desktop check and the title
\* synthesis, each once, in the order of the OS enumeration.
C23_EnumerationOrder ==
    op.kind = "list" =>
        LET Passes(w) == IsAltTabEligible(w) /\ IsOnCurrentVirtualDesktop(w, vdmService, op.how = "all") /\ TitleFor(w) # ""
            passed == SelectSeq(topWindows, Passes)
        IN  listed = [j \in 1..Len(passed) |-> [hwnd |-> passed[j].hwnd, title |-> TitleFor(passed[j]), isVisible |-> passed[j].visible]]

\* C23 witness: of three windows whose handles descend in enumeration order
\* the first and the third were listed, in that order, and the second was not.
C23_Witness ==
    /\ op.kind = "list" /\ Len(topWindows) = 3 /\ Len(listed) = 2
    /\ listed[1].hwnd = topWindows[1].hwnd /\ listed[2].hwnd = topWindows[3].hwnd
    /\ listed[1].hwnd > listed[2].hwnd

\* C24: the icon cache entry of a handle is written once: once it exists it is
\* never changed or removed, and every icon fetch that finds it returns
\* exactly that payload without resolving an icon, also when fetches for the
\* handle run on the main thread and on a worker thread at the same time.
C24_IconCacheOnce ==
    [][ /\ \A h \in DOMAIN g_iconCache : h \in DOMAIN g_iconCache' /\ g_iconCache'[h] = g_iconCache[h]
        /\ (op'.id # op.id /\ op'.kind = "icon" /\ op'.how # "store" /\ op'.hwnd \in DOMAIN g_iconCache) =>
              op'.how = "hit" /\ op'.ret = g_iconCache[op'.hwnd] ]_vars

\* The cache holds an entry for hwnd whose payload is longer than the data-URL
\* prefix by more than 8000.
C25_GoodEntry(hwnd) == hwnd \in DOMAIN g_thumbCache /\ g_thumbCache[hwnd].base64.len > 22 + 8000

\* C25: a fetch returns the icon placeholder only when the window is minimized
\* after a capture that came back degenerate and the cache holds no good entry
\* for the handle; with a good entry, a minimized window and a degenerate
\* capture it returns the entry; no cache entry ever holds the placeholder.
C25_IconPlaceholder ==
    [][ /\ (FetchStep /\ op'.ret.img = "icon") =>
              /\ Captured(op') /\ IsIconic(win'[op'.hwnd])
              /\ ~C25_GoodEntry(op'.hwnd)
              /\ g_thumbCache' = g_thumbCache
        /\ \A hwnd \in QueryHandles, size \in Sizes, iconic1 \in BOOLEAN, fresh \in {EmptyPng, TinyPng}, placeholder \in PlaceholderOutcomes :
              C25_GoodEntry(hwnd) =>
                  LET r == GetOrCaptureWindowThumbnail(g_thumbCache, hwnd, size[1], size[2], TRUE, GetWindowRect(win[hwnd]), now, iconic1, fresh, TRUE, placeholder)
                  IN  r.ret = g_thumbCache[hwnd].base64 /\ r.cache = g_thumbCache
        /\ \A hwnd \in DOMAIN g_thumbCache' : g_thumbCache'[hwnd].base64.img # "icon" ]_vars

\* C25 witness: a fetch has returned the icon placeholder for a window whose
\* cache entry holds a degenerate payload.
C25_Witness ==
    /\ op.kind = "fetch" /\ op.how = "placeholder" /\ op.ret = IconTile
    /\ op.hwnd \in DOMAIN g_thumbCache /\ ~isGoodPng(g_thumbCache[op.hwnd].base64)

\* The strategies that come after the strategy s in the chain.
C26_Later(s) == {Strategies[j] : j \in {j \in DOMAIN Strategies : \E i \in DOMAIN Strategies : Strategies[i] = s /\ i < j}}

\* C26: a capture returns the payload of a strategy only if the payload is good
\* by the byte-size threshold or no later strategy of the chain remains
\* untried.
C26_FirstGoodStrategy ==
    (op.kind = "capture" /\ op.how # "none" /\ C26_Later(op.how) # {}) => isGoodPng(op.ret)

\* The types of the entries of q (events or queued calls) on the channel chan,
\* in the order of q.
C27_TypesOn(q, chan) ==
    LET OnChan(c) == c.chan = chan
        on == SelectSeq(q, OnChan)
    IN  [i \in 1..Len(on) |-> on[i].type]

\* C27: on every channel the calls waiting for the host are the events the
\* producers handed over, each producer's in the order it emitted them: a step
\* adds the events it emitted on the channel behind those waiting, in the
\* order of emission, and the host takes the oldest call only.
C27_PerProducerOrder ==
    [][ \A chan \in Slots :
           \/ C27_TypesOn(hostQueue', chan) = C27_TypesOn(hostQueue, chan) \o C27_TypesOn(emitted', chan)
           \/ /\ hostQueue # <<>> /\ Head(hostQueue).chan = chan
              /\ emitted' = <<>>
              /\ C27_TypesOn(hostQueue', chan) = Tail(C27_TypesOn(hostQueue, chan)) ]_vars

\* C27 witness: two calls of different types wait on the unified channel, the
\* later one just emitted by the poller.
C27_Witness ==
    /\ Len(C27_TypesOn(hostQueue, "change")) >= 2
    /\ C27_TypesOn(hostQueue, "change")[1] # C27_TypesOn(hostQueue, "change")[2]
    /\ emitted # <<>> /\ poller.pc = "sleep"

\* The events evs are of one normalized kind at most.
C28_OneKind(evs) == \A i \in DOMAIN evs, j \in DOMAIN evs : evs[i].type = evs[j].type

\* C28: one invocation of the hook callback delivers events of one normalized
\* kind at most, for every raw signal, object id and handle, in every
\* reachable state of the windows, of the foreground and of the registrations
\* (the signal waiting for the callback is one of them).
C28_HookMapping ==
    \A event \in WinEvents, hwnd \in EvHandles \cup {NullHwnd}, idObject \in ObjIds :
        C28_OneKind(WinEventProcCB(g_tsfn, win, fg, event, hwnd, idObject))

\* C28 witness: with the created and the unified callback registered, an
\* invocation of the hook callback has delivered what the show signal yields
\* for the window, one "restored" event on the unified channel.
C28_Witness ==
    /\ g_tsfn["created"] /\ g_tsfn["change"] /\ poller.pc # "sleep"
    /\ emitted = <<[chan |-> "change", type |-> "restored", data |-> MakePayload(win, 1)]>>
    /\ emitted = WinEventProcCB(g_tsfn, win, fg, "SHOW", 1, "OBJID_WINDOW")

\* The handles of the set diffs the poller's blocks are applied to.
C29_Handles == {1, 2, 3}

\* The number of events of kind `type` for hwnd that evs delivers on chan.
C29_Count(evs, chan, type, hwnd) ==
    Cardinality({i \in DOMAIN evs : evs[i].chan = chan /\ evs[i].type = type /\ evs[i].data.hwnd = hwnd})

\* evs delivers, on every registered channel that takes the kind, exactly one
\* event of the kind for each handle of `for` and none for any other handle.
C29_OneEach(evs, type, for) ==
    \A chan \in {type, "change"}, h \in C29_Handles :
        g_tsfn[chan] => C29_Count(evs, chan, type, h) = (IF h \in for THEN 1 ELSE 0)

\* C29: an unsuppressed tick of the poller emits exactly one 'created' event
\* for each handle that is enumerated and not known and none for other handles,
\* and exactly one 'closed' event for each handle that is known and not
\* enumerated and none for other handles, on each registered channel; so do
\* its created and closed blocks for every known set and every enumerated set.
C29_PollerSetDiff ==
    [][ (WindowsStep /\ ~poller.hooksActive) =>
           /\ C29_OneEach(emitted', "created", EnumTopLevelWindows(win) \ poller.known)
           /\ C29_OneEach(emitted', "closed", poller.known \ EnumTopLevelWindows(win))
           /\ \A known \in SUBSET C29_Handles, current \in SUBSET C29_Handles :
                 LET evs == PollCreated(g_tsfn, win, FALSE, known, current) \o PollClosed(g_tsfn, FALSE, known, current)
                 IN  /\ C29_OneEach(evs, "created", current \ known)
                     /\ C29_OneEach(evs, "closed", known \ current) ]_vars

\* C29 witness: with no hook callback ever invoked, a tick of the poller has
\* emitted one 'closed' event on the closed channel and one on the unified
\* channel for the handle that left the enumerated set, and the handle is no
\* longer known.
C29_Witness ==
    /\ g_lastHookEventTick = 0 /\ poller.pc = "sleep"
    /\ g_tsfn["closed"] /\ g_tsfn["change"]
    /\ emitted = Emit(g_tsfn, "closed", ClosedPayload(1))
    /\ 1 \notin poller.known /\ 1 \notin EnumTopLevelWindows(win)

\* C30: with no hook callback ever invoked (every tick is unsuppressed), a tick
\* of the poller that finds a live, visible, known window minimized which it
\* remembers as not minimized emits a 'minimized' event for it on every
\* registered channel that takes the kind, and no 'closed' event; a tick that
\* finds a known window not minimized which it remembers as minimized emits a
\* 'restored' event and no 'created' event.
C30_PollerMinimizeRestore ==
    [][ (WindowsStep /\ g_lastHookEventTick = 0) =>
           \A h \in EvHandles :
              (h \in poller.known /\ h \in DOMAIN poller.minimized /\ IsWindowVisible(win[h])) =>
                 /\ (~poller.minimized[h] /\ IsIconic(win[h]) /\ (g_tsfn["minimized"] \/ g_tsfn["change"])) =>
                        /\ DeliveredToRegistered(emitted', "minimized", h)
                        /\ \A chan \in Slots : ~DeliveredOn(emitted', chan, "closed", h)
                 /\ (poller.minimized[h] /\ ~IsIconic(win[h]) /\ (g_tsfn["restored"] \/ g_tsfn["change"])) =>
                        /\ DeliveredToRegistered(emitted', "restored", h)
                        /\ \A chan \in Slots : ~DeliveredOn(emitted', chan, "created", h) ]_vars

\* C31: the window an enumeration of all desktops has visited is in its records
\* exactly if the poller's enumeration keeps it.
C31_PollerUsesEligibility ==
    (op.kind = "list" /\ op.how = "all") =>
        (topWindow.hwnd \in ListedHandles <=> EnumTopLevelWindowsProc(topWindow))

\* evs holds no event of kind `type` for hwnd on any channel.
C32_None(evs, type, hwnd) == \A chan \in Slots : ~DeliveredOn(evs, chan, type, hwnd)

\* C32: every invocation of the hook callback stamps the marker, whatever it
\* delivers; a suppressed tick delivers nothing and takes what it sampled into
\* the known set, the minimized flags and the remembered foreground; and no
\* tick emits an event for what the bookkeeping already holds: no 'created' for
\* a known handle that is enumerated, no 'closed' for a handle that is not
\* known, no 'minimized' or 'restored' for a remembered flag equal to the
\* sampled one, no 'focused' for the remembered foreground.
C32_AbsorbedChanges ==
    [][ LET current == EnumTopLevelWindows(win)
        IN  /\ HookStep => g_lastHookEventTick' = now
            /\ ForegroundStep =>
                  /\ poller'.lastFg = RootOr(win, fg)
                  /\ poller'.hooksActive => emitted' = <<>>
                  /\ RootOr(win, fg) = poller.lastFg => \A h \in EvHandles : C32_None(emitted', "focused", h)
            /\ (WindowsStep /\ poller.hooksActive) =>
                  /\ emitted' = <<>>
                  /\ poller'.known = current
                  /\ \A h \in current : poller'.minimized[h] = IsIconic(win[h])
            /\ WindowsStep =>
                  \A h \in EvHandles :
                     /\ (h \in poller.known /\ h \in current) => C32_None(emitted', "created", h)
                     /\ h \notin poller.known => C32_None(emitted', "closed", h)
                     /\ (h \in current /\ h \in DOMAIN poller.minimized /\ poller.minimized[h] = IsIconic(win[h])) =>
                            C32_None(emitted', "minimized", h) /\ C32_None(emitted', "restored", h) ]_vars

\* C32 witness: a hook callback that delivered nothing has stamped the marker,
\* the poller has taken the window into its known set, later ticks have run
\* and the unified callback, registered all along, was told nothing about the
\* window.
C32_Witness ==
    /\ g_lastHookEventTick # 0 /\ now - g_lastHookEventTick > SuppressMs
    /\ g_tsfn["change"] /\ pending = <<>> /\ poller.pc = "sleep"
    /\ 1 \in poller.known /\ IsWindowVisible(win[1])
    /\ uni[1].last = "none"

\* C33: for every window state the enumeration of the current desktop and the
\* enumeration of all desktops yield the same records, and the records of an
\* enumeration that ran are those, whichever flag it ran with.
C33_FlagWithoutEffect ==
    LET current == EnumWindowsFrom(<<>>, topWindows, 1, vdmService, FALSE)
        all == EnumWindowsFrom(<<>>, topWindows, 1, vdmService, TRUE)
    IN  /\ current = all
        /\ op.kind = "list" => listed = all

\* C33 witness: an enumeration of the current desktop has listed a window that
\* the virtual-desktop manager reports on another desktop.
C33_Witness ==
    /\ op.kind = "list" /\ op.how = "current" /\ vdmService
    /\ topWindow.desktop.vdm = "other" /\ ~topWindow.desktop.popupVisible
    /\ listed # <<>> /\ listed[1].hwnd = topWindow.hwnd

\* C34: the poller thread starts with an empty known set, no minimized flags
\* and no remembered foreground, and the marker is 0 when the first thread
\* starts; a tick that begins in that state, with no hook callback in the
\* 1000ms before its clock read, is not suppressed and delivers to the
\* registered callbacks a 'focused' event for the foreground window and a
\* 'created' event for every enumerated window.
C34_FirstTick ==
    [][ /\ (poller.pc = "none" /\ poller'.pc # "none") =>
              /\ poller'.known = {} /\ poller'.minimized = <<>> /\ poller'.lastFg = NullHwnd
              /\ g_lastHookEventTick' = 0
        /\ (/\ ForegroundStep /\ poller.known = {} /\ poller.minimized = <<>> /\ poller.lastFg = NullHwnd
            /\ \/ g_lastHookEventTick = 0
               \/ g_lastHookEventTick <= poller.nowTick /\ poller.nowTick - g_lastHookEventTick >= SuppressMs) =>
              /\ ~poller'.hooksActive
              /\ RootOr(win, fg) # NullHwnd => DeliveredToRegistered(emitted', "focused", RootOr(win, fg))
        /\ (WindowsStep /\ poller.known = {} /\ poller.minimized = <<>> /\ ~poller.hooksActive) =>
              \A h \in EnumTopLevelWindows(win) : DeliveredToRegistered(emitted', "created", h) ]_vars

\* C34 witness: before any time has passed since the start and with no hook
\* callback ever invoked, the first tick has remembered the foreground window
\* and delivered a 'created' event for it on the unified channel.
C34_Witness ==
    /\ now = EvTimeStep /\ g_lastHookEventTick = 0 /\ poller.pc = "sleep"
    /\ g_tsfn["change"] /\ poller.lastFg = 1 /\ 1 \in poller.known
    /\ DeliveredOn(emitted, "change", "created", 1)


\* C35: with two threads fetching or refreshing the same handle concurrently,
\* the timestamp of the handle's cache entry never decreases (a capture that
\* started earlier never overwrites the entry of a capture that started later).
C35_TimestampNeverDecreases ==
    [][\A hwnd \in DOMAIN g_thumbCache :
          hwnd \in DOMAIN g_thumbCache' /\ g_thumbCache'[hwnd].ts >= g_thumbCache[hwnd].ts]_vars


\* C36: the poller reads the clock first and the last-hook-activity marker
\* afterwards; whenever a hook callback ran less than 1000ms before the poller
\* decides, the callback that ran between the two reads (marker greater than
\* the sampled tick) included, the tick is treated as suppressed.
C36_SuppressionArithmetic ==
    [][(/\ ForegroundStep
        /\ g_lastHookEventTick # 0
        /\ \/ U64Sub(poller.nowTick, g_lastHookEventTick) < SuppressMs
           \/ /\ g_lastHookEventTick > poller.nowTick
              /\ U64Sub(now, g_lastHookEventTick) < SuppressMs)
       => poller'.hooksActive]_vars


\* C38: once stopWindowEvents has returned (the main thread is between
\* handlers and every slot is empty), the host runs no call of a registered
\* function: none queued before the teardown, none queued by the poller tick
\* that was in progress when the stop flag was set.
C38_NoDeliveryAfterTeardown ==
    [][(/\ mainPc = "idle"
        /\ \A s \in Slots : g_fn[s] = NoFn
        /\ hostQueue # <<>>
        /\ hostQueue' = Tail(hostQueue))
       => Head(hostQueue).fn = NoFn]_vars


\* C37: under every interleaving of a registration call with a poller tick,
\* the poller never calls a callback handle that has already been released.
C37_NoReleasedHandleCalled ==
    [][(tsfns.test # "none" /\ tsfns'.test = "none")
       => tsfns'.called \notin tsfns.released]_vars

====
